---- MODULE Spec2Model ----
(***************************************************************************)
(* A model of the Patchlings telemetry ingestion engine                    *)
(* (packages/engine/src/index.ts): the per-event pipeline of ingestBatch   *)
(* (redaction, turn-boundary flush, backpressure, de-duplication, the      *)
(* reducer and the chapter state machine) and flushRunAggregates.          *)
(*                                                                         *)
(* The engine is written as operators over an engine record `e` (the       *)
(* fields of a PatchlingsEngine instance); every operator that mutates the *)
(* engine returns the new record, together with what the method returns.   *)
(***************************************************************************)
EXTENDS Integers, Sequences, FiniteSets, TLC

VARIABLES
  eng,        \* the engine instance (world, chapters, openChapters, backpressure, aggregates, salts)
  engB,       \* a second engine instance, fed the same events (replay)
  batch,      \* the locals of the ingestBatch call in progress (its result so far)
  log,        \* history of eng: for every call made so far, its input and what it returned
  logB,       \* history of engB
  fs          \* the storage directory of eng (fs mode) and the writes in flight on it

vars == <<eng, engB, batch, log, logB, fs>>

-----------------------------------------------------------------------------
(* Bounds of the model *)

MaxEvents == 4
MaxBatch == 2
MaxReplay == 4
MaxFlood == 5
MaxTurns == 4
MaxOrder == 5
MaxSeqEvents == 5
MaxFiles == 4
MaxFsEvents == 4
MaxErrors == 1
MaxCrashes == 1
MaxRecEvents == 3

-----------------------------------------------------------------------------
(* Program constants *)

INTERNAL_SEQ_OFFSET == 1000000000
POSITIVE_INFINITY == 2147483647
DEFAULT_MAX_CHAPTERS == 500
WORLD_VERSION == 1

\* EngineOptions.eventsPerSecondThreshold as the tests configure it, scaled
\* down; an engine keeps the value it was created with
eventsPerSecondThreshold == 1

\* EngineOptions.maxRecordingBytes, scaled down with the lines (LineBytes)
maxRecordingBytes == 10

\* an absent optional number (upstream_seq: undefined)
NoSeq == -1

-----------------------------------------------------------------------------
(* Maps (JavaScript objects and Maps) as functions with a finite domain *)

EmptyMap == [k \in {} |-> 0]

Has(m, k) == k \in DOMAIN m

Put(m, k, v) == [x \in (DOMAIN m) \cup {k} |-> IF x = k THEN v ELSE m[x]]

Del(m, k) == [x \in (DOMAIN m) \ {k} |-> m[x]]

Max(a, b) == IF a >= b THEN a ELSE b

RECURSIVE SumOver(_, _)
SumOver(m, S) ==
  IF S = {} THEN 0
  ELSE LET k == CHOOSE x \in S : TRUE IN m[k] + SumOver(m, S \ {k})

RECURSIVE Concat(_)
Concat(ss) == IF ss = <<>> THEN <<>> ELSE Head(ss) \o Concat(Tail(ss))

SelectSeqIdx(s, P(_)) == {i \in 1..Len(s) : P(s[i])}

\* const x = value; followed by the statements F that read x
With(value, F(_)) == F(value)

-----------------------------------------------------------------------------
(* Strings: String.prototype.localeCompare and includes over the names used *)

\* the TelemetryKind values in localeCompare order
KindOrder == <<"error", "file", "git", "log", "metric", "spawn", "test", "tool", "turn">>

\* the event names the model submits, in localeCompare order
NameOrder ==
  <<"file.write", "log.line", "log.progress", "metric.backpressure.summary", "metric.heartbeat",
    "tool.shell.start", "turn.completed", "turn.failed", "turn.started">>

RankIn(order, s) == CHOOSE i \in 1..Len(order) : order[i] = s

\* a.localeCompare(b) < 0
KindBefore(a, b) == RankIn(KindOrder, a) < RankIn(KindOrder, b)
NameBefore(a, b) == RankIn(NameOrder, a) < RankIn(NameOrder, b)

\* name.toLowerCase() includes "progress", "delta" or "heartbeat"
NameHasLowValueWord(name) == name \in {"log.progress", "metric.heartbeat"}

-----------------------------------------------------------------------------
(* Time: timestamps are milliseconds since the epoch (Date.parse of ts) *)

tsToSecond(ts) == ts \div 1000

-----------------------------------------------------------------------------
(* Attribute values and objects.                                           *)
(* A value carries its JavaScript type; a string is the sequence of its    *)
(* "/"-separated segments, so that path normalisation and dirname are      *)
(* computed.  An object is the sequence of its entries in insertion order  *)
(* (Object.entries, Object.keys).  A key is the sequence of the words it   *)
(* is made of: "path_stable_hash" is <<"path", "_stable_hash">>.           *)

Undefined == [t |-> "undefined", v |-> <<>>]
Str(s) == [t |-> "string", v |-> <<s>>]
PathStr(segs) == [t |-> "string", v |-> segs]
Num(n) == [t |-> "number", v |-> <<n>>]
Bool(b) == [t |-> "boolean", v |-> <<b>>]
Null == [t |-> "null", v |-> <<>>]
Nested == [t |-> "object", v |-> <<>>]

\* strict equality of two attribute values: the same type and the same value
SameValue(a, b) == a.t = b.t /\ a.v = b.v

ObjKeys(o) == [i \in 1..Len(o) |-> o[i].k]

ObjHas(o, key) == \E i \in 1..Len(o) : o[i].k = key

\* o[key], undefined when the key is absent
ObjGet(o, key) ==
  IF ObjHas(o, key) THEN o[CHOOSE i \in 1..Len(o) : o[i].k = key].v ELSE Undefined

\* o[key] = value: an existing key keeps its place
ObjSet(o, key, value) ==
  IF ObjHas(o, key)
  THEN [i \in 1..Len(o) |-> IF o[i].k = key THEN [k |-> key, v |-> value] ELSE o[i]]
  ELSE Append(o, [k |-> key, v |-> value])

\* keys.find(pred): the first key satisfying pred, <<>> when there is none
FindKey(o, P(_)) ==
  IF \E i \in 1..Len(o) : P(o[i].k)
  THEN o[CHOOSE i \in 1..Len(o) : P(o[i].k) /\ \A j \in 1..(i - 1) : ~P(o[j].k)].k
  ELSE <<>>

\* a ?? b
Coalesce(a, b) == IF a.t \in {"undefined", "null"} THEN b ELSE a

-----------------------------------------------------------------------------
(* Salted hashing (redact package) *)

RECURSIVE JoinSegs(_)
JoinSegs(segs) ==
  IF segs = <<>> THEN ""
  ELSE IF Len(segs) = 1 THEN segs[1]
  ELSE segs[1] \o "/" \o JoinSegs(Tail(segs))

\* sha256(salt | value), hex, first 12 characters: a symbolic digest that
\* differs whenever salt or value differ
hashWithSalt(value, salt) == "#" \o salt \o "|" \o value

\* path.normalize on relative paths: "." and empty segments are dropped and
\* "seg/.." collapses; an empty result is "."
RECURSIVE NormSegs(_, _)
NormSegs(segs, acc) ==
  IF segs = <<>> THEN acc
  ELSE LET h == Head(segs) IN
    IF h \in {".", ""} THEN NormSegs(Tail(segs), acc)
    ELSE IF h = ".." /\ acc # <<>> /\ acc[Len(acc)] # ".."
         THEN NormSegs(Tail(segs), SubSeq(acc, 1, Len(acc) - 1))
    ELSE NormSegs(Tail(segs), Append(acc, h))

normalizePath(segs) ==
  LET n == NormSegs(segs, <<>>) IN IF n = <<>> THEN <<".">> ELSE n

dirnamePosix(segs) ==
  LET parts == SelectSeq(normalizePath(segs), LAMBDA p : p # "") IN
  IF Len(parts) <= 1 THEN <<".">> ELSE SubSeq(parts, 1, Len(parts) - 1)

hashPath(segs, salt) == hashWithSalt(JoinSegs(normalizePath(segs)), salt)

-----------------------------------------------------------------------------
(* Key patterns of the redactor.  WordsIn(w) lists the pattern words that  *)
(* occur, case-insensitively, inside the key word w.                       *)

WordsIn(w) ==
  CASE w = "path" -> {"path"}
    [] w = "file" -> {"file"}
    [] w = "target" -> {"target", "arg"}
    [] w = "source_kind" -> {"source"}
    [] w = "source_name" -> {"source"}
    [] w = "token" -> {"token"}
    [] w = "apiKey" -> {"api_key"}
    [] w = "cookie_body" -> {"cookie", "body"}
    [] w = "secret_path" -> {"secret", "path"}
    [] w = "diff_path" -> {"diff", "path"}
    [] w = "command" -> {"command"}
    [] w = "args" -> {"arg"}
    [] w = "prompt" -> {"prompt"}
    [] w = "patchlings_internal" -> {"patch"}
    [] w = "_hash" -> {"_hash"}
    [] w = "_dir_hash" -> {"_hash", "_dir_hash"}
    [] w = "_stable_hash" -> {"_hash", "_stable_hash"}
    [] w = "_stable_dir_hash" -> {"_hash", "_dir_hash", "_stable_dir_hash"}
    [] OTHER -> {}

KeyHasWord(key, word) == \E i \in 1..Len(key) : word \in WordsIn(key[i])

\* key.endsWith(word), for the suffix words
KeyEndsWith(key, word) == key # <<>> /\ word \in WordsIn(key[Len(key)])

ALWAYS_REDACT_KEY_PATTERNS ==
  {"token", "secret", "authorization", "cookie", "header", "password", "api_key", "session"}

CONTENT_KEY_PATTERNS ==
  {"prompt", "content", "body", "payload", "stdin", "stdout", "stderr", "command", "arg",
   "diff", "patch"}

\* /^file$/ is matched against the whole key
PATH_KEY_PATTERNS == {"path", "file_name", "cwd", "workspace", "repo", "target", "source"}

isAlwaysRedactedKey(key) == \E w \in ALWAYS_REDACT_KEY_PATTERNS : KeyHasWord(key, w)

isContentKey(key) == \E w \in CONTENT_KEY_PATTERNS : KeyHasWord(key, w)

isPathKey(key) == (\E w \in PATH_KEY_PATTERNS : KeyHasWord(key, w)) \/ key = <<"file">>

isHashedKey(key) == KeyHasWord(key, "_hash")

\* asAttrValue: primitives pass, anything else is undefined
asAttrValue(value) ==
  IF value.t \in {"null", "string", "number", "boolean"} THEN value ELSE Undefined

\* RedactEntry copying an already-hashed key through before the test of the
\* always-redact patterns
RedactEntry_HashedFirst(redacted, key, value, salt, allowContent, stableSalt) ==
  IF isHashedKey(key)
  THEN IF asAttrValue(value).t # "undefined" THEN ObjSet(redacted, key, asAttrValue(value))
       ELSE redacted
  ELSE IF isAlwaysRedactedKey(key) THEN redacted
  ELSE IF ~allowContent /\ isContentKey(key) THEN redacted
  ELSE IF value.t = "string" /\ isPathKey(key)
  THEN LET dirValue == dirnamePosix(value.v)
           r1 == ObjSet(redacted, key \o <<"_hash">>, Str(hashPath(value.v, salt)))
           r2 == ObjSet(r1, key \o <<"_dir_hash">>, Str(hashPath(dirValue, salt)))
           r3 == IF stableSalt # ""
                 THEN ObjSet(ObjSet(r2, key \o <<"_stable_hash">>, Str(hashPath(value.v, stableSalt))),
                             key \o <<"_stable_dir_hash">>, Str(hashPath(dirValue, stableSalt)))
                 ELSE r2
       IN IF allowContent THEN ObjSet(r3, key, value) ELSE r3
  ELSE IF asAttrValue(value).t = "undefined" THEN redacted
  ELSE ObjSet(redacted, key, asAttrValue(value))

\* RedactEntry writing the raw value of a path-like key whatever allowContent is
RedactEntry_KeepsRaw(redacted, key, value, salt, allowContent, stableSalt) ==
  IF isAlwaysRedactedKey(key) THEN redacted
  ELSE IF isHashedKey(key)
  THEN IF asAttrValue(value).t # "undefined" THEN ObjSet(redacted, key, asAttrValue(value))
       ELSE redacted
  ELSE IF ~allowContent /\ isContentKey(key) THEN redacted
  ELSE IF value.t = "string" /\ isPathKey(key)
  THEN LET dirValue == dirnamePosix(value.v)
           r1 == ObjSet(redacted, key \o <<"_hash">>, Str(hashPath(value.v, salt)))
           r2 == ObjSet(r1, key \o <<"_dir_hash">>, Str(hashPath(dirValue, salt)))
           r3 == IF stableSalt # ""
                 THEN ObjSet(ObjSet(r2, key \o <<"_stable_hash">>, Str(hashPath(value.v, stableSalt))),
                             key \o <<"_stable_dir_hash">>, Str(hashPath(dirValue, stableSalt)))
                 ELSE r2
       IN ObjSet(r3, key, value)
  ELSE IF asAttrValue(value).t = "undefined" THEN redacted
  ELSE ObjSet(redacted, key, asAttrValue(value))

\* one iteration of the loop of redactAttrs over Object.entries(attrs)
RedactEntry(redacted, key, value, salt, allowContent, stableSalt) ==
  IF isAlwaysRedactedKey(key) THEN redacted
  ELSE IF isHashedKey(key)
  THEN IF asAttrValue(value).t # "undefined" THEN ObjSet(redacted, key, asAttrValue(value))
       ELSE redacted
  ELSE IF ~allowContent /\ isContentKey(key) THEN redacted
  ELSE IF value.t = "string" /\ isPathKey(key)
  THEN LET dirValue == dirnamePosix(value.v)
           r1 == ObjSet(redacted, key \o <<"_hash">>, Str(hashPath(value.v, salt)))
           r2 == ObjSet(r1, key \o <<"_dir_hash">>, Str(hashPath(dirValue, salt)))
           r3 == IF stableSalt # ""
                 THEN ObjSet(ObjSet(r2, key \o <<"_stable_hash">>, Str(hashPath(value.v, stableSalt))),
                             key \o <<"_stable_dir_hash">>, Str(hashPath(dirValue, stableSalt)))
                 ELSE r2
       IN IF allowContent THEN ObjSet(r3, key, value) ELSE r3
  ELSE IF asAttrValue(value).t = "undefined" THEN redacted
  ELSE ObjSet(redacted, key, asAttrValue(value))

RECURSIVE RedactFrom(_, _, _, _, _, _)
RedactFrom(attrs, i, redacted, salt, allowContent, stableSalt) ==
  IF i > Len(attrs) THEN redacted
  ELSE RedactFrom(attrs, i + 1,
                  RedactEntry(redacted, attrs[i].k, attrs[i].v, salt, allowContent, stableSalt),
                  salt, allowContent, stableSalt)

\* An absent attrs and the empty object are both <<>>: redactAttrs returns
\* undefined for either.  stableSalt "" is an absent stableSalt.
redactAttrs(attrs, salt, allowContent, stableSalt) ==
  RedactFrom(attrs, 1, <<>>, salt, allowContent, stableSalt)

\* process.env.PATCHLINGS_ALLOW_CONTENT === "true"; unset in the engine's tests
DEFAULT_ALLOW_CONTENT == FALSE

redactEvent(event, salt, stableSalt) ==
  [event EXCEPT !.attrs = redactAttrs(event.attrs, salt, DEFAULT_ALLOW_CONTENT, stableSalt)]


-----------------------------------------------------------------------------
(* Telemetry events (TelemetryEventV1) *)

Event(run, seq, up, ts, kind, name, severity, internal, attrs) ==
  [run_id |-> run, seq |-> seq, upstream_seq |-> up, ts |-> ts, kind |-> kind,
   name |-> name, severity |-> severity, internal |-> internal, attrs |-> attrs]

isTurnStart(event) == event.kind = "turn" /\ event.name = "turn.started"

\* isTurnEnd giving the status completed to turn.failed as well
isTurnEnd_AlwaysCompleted(event) ==
  IF event.kind # "turn" THEN ""
  ELSE IF event.name = "turn.completed" THEN "completed"
  ELSE IF event.name = "turn.failed" THEN "completed"
  ELSE ""

\* the status of isTurnEnd, "" when ended is false
isTurnEnd(event) ==
  IF event.kind # "turn" THEN ""
  ELSE IF event.name = "turn.completed" THEN "completed"
  ELSE IF event.name = "turn.failed" THEN "failed"
  ELSE ""

\* isLowValueEvent without the test of the name
isLowValueEvent_NoName(event) ==
  \/ event.kind = "log"
  \/ event.severity = "debug"

isLowValueEvent(event) ==
  \/ event.kind = "log"
  \/ event.severity = "debug"
  \/ NameHasLowValueWord(event.name)

isInternalEvent(event) ==
  \/ event.internal
  \/ LET a == ObjGet(event.attrs, <<"patchlings_internal">>)
     IN a.t = "boolean" /\ a.v = <<TRUE>>

upstreamSeq(event) == IF event.upstream_seq # NoSeq THEN event.upstream_seq ELSE event.seq

\* String(attrs.tool_name ?? attrs.tool ?? attrs.adapter_tool ?? event.name)
getToolName(event) ==
  LET c == Coalesce(ObjGet(event.attrs, <<"tool_name">>),
             Coalesce(ObjGet(event.attrs, <<"tool">>),
               Coalesce(ObjGet(event.attrs, <<"adapter_tool">>), Str(event.name))))
  IN IF c.t = "string" THEN JoinSegs(c.v) ELSE ToString(c.v[1])

\* getPathLikeHashes looking for the run-salted hash before the stable one
getPathLikeHashes_RunSaltFirst(attrs) ==
  LET stablePathKey == FindKey(attrs, LAMBDA k :
                         KeyEndsWith(k, "_stable_hash") /\ ~KeyEndsWith(k, "_stable_dir_hash"))
      stableDirKey == FindKey(attrs, LAMBDA k : KeyEndsWith(k, "_stable_dir_hash"))
      pathKey == FindKey(attrs, LAMBDA k :
                   KeyEndsWith(k, "_hash") /\ ~KeyEndsWith(k, "_dir_hash") /\ KeyHasWord(k, "path"))
      dirKey == FindKey(attrs, LAMBDA k : KeyEndsWith(k, "_dir_hash"))
      str(key) == LET a == ObjGet(attrs, key)
                  IN IF a.t = "string" THEN JoinSegs(a.v) ELSE ToString(a.v)
  IN [pathId |-> IF pathKey # <<>> THEN str(pathKey)
                 ELSE IF stablePathKey # <<>> THEN str(stablePathKey) ELSE "",
      regionId |-> IF dirKey # <<>> THEN str(dirKey)
                   ELSE IF stableDirKey # <<>> THEN str(stableDirKey) ELSE ""]

\* getPathLikeHashes: "" stands for an id that is not resolved
getPathLikeHashes(attrs) ==
  LET stablePathKey == FindKey(attrs, LAMBDA k :
                         KeyEndsWith(k, "_stable_hash") /\ ~KeyEndsWith(k, "_stable_dir_hash"))
      stableDirKey == FindKey(attrs, LAMBDA k : KeyEndsWith(k, "_stable_dir_hash"))
      pathKey == FindKey(attrs, LAMBDA k :
                   KeyEndsWith(k, "_hash") /\ ~KeyEndsWith(k, "_dir_hash") /\ KeyHasWord(k, "path"))
      dirKey == FindKey(attrs, LAMBDA k : KeyEndsWith(k, "_dir_hash"))
      str(key) == LET a == ObjGet(attrs, key)
                  IN IF a.t = "string" THEN JoinSegs(a.v) ELSE ToString(a.v)
  IN [pathId |-> IF stablePathKey # <<>> THEN str(stablePathKey)
                 ELSE IF pathKey # <<>> THEN str(pathKey) ELSE "",
      regionId |-> IF stableDirKey # <<>> THEN str(stableDirKey)
                   ELSE IF dirKey # <<>> THEN str(dirKey) ELSE ""]

-----------------------------------------------------------------------------
(* The engine instance *)

makeWorld(workspaceId, now) ==
  [workspace_id |-> workspaceId,
   created_at |-> now,
   updated_at |-> now,
   counters |-> [events |-> 0, chapters |-> 0, dropped_low_value_events |-> 0,
                 duplicate_events |-> 0, backpressure_summaries |-> 0],
   runs |-> EmptyMap,
   regions |-> EmptyMap,
   files |-> EmptyMap,
   patchlings |-> EmptyMap]

\* PatchlingsEngine.create in memory mode with fixedSalts: `runSalts` maps run
\* ids to salts, `now` is Date.now() at creation
CreateEngine(workspaceSalt, runSalts, now) ==
  [salts |-> [workspace_salt |-> workspaceSalt, runs |-> runSalts],
   world |-> makeWorld(hashWithSalt("/workspace", workspaceSalt), now),
   chapters |-> <<>>,
   openChapters |-> EmptyMap,
   backpressure |-> EmptyMap,
   aggregates |-> EmptyMap,
   eventsPerSecondThreshold |-> eventsPerSecondThreshold]

\* getRunSalt that ignores the fixed salt of the run and draws a new one
getRunSalt_Random(e, runId, fresh) ==
  [eng |-> [e EXCEPT !.salts.runs = Put(@, runId, fresh)], salt |-> fresh]

\* SaltManager.getRunSalt: `fresh` is what createSalt() returns if it is called
getRunSalt(e, runId, fresh) ==
  IF Has(e.salts.runs, runId)
  THEN [eng |-> e, salt |-> e.salts.runs[runId]]
  ELSE [eng |-> [e EXCEPT !.salts.runs = Put(@, runId, fresh)], salt |-> fresh]

getWorkspaceSalt(e) == e.salts.workspace_salt

NewRunState(runId, ts) ==
  [run_id |-> runId, chapter_count |-> 0, event_count |-> 0, tool_count |-> 0,
   file_touch_count |-> 0, test_pass |-> 0, test_fail |-> 0, error_count |-> 0,
   dropped_low_value_events |-> 0, duplicate_events |-> 0, peak_events_per_sec |-> 0,
   last_upstream_seq |-> -1, internal_seq |-> INTERNAL_SEQ_OFFSET, last_ts |-> ts,
   recording_index |-> 0, recording_bytes |-> 0]

\* ensureRunState that also moves world.updated_at to the event's ts
ensureRunState_TouchesWorld(e, runId, ts) ==
  IF Has(e.world.runs, runId)
  THEN [e EXCEPT !.world.runs[runId].last_ts = ts, !.world.updated_at = ts]
  ELSE [e EXCEPT !.world.runs = Put(@, runId, NewRunState(runId, ts)), !.world.updated_at = ts]

\* ensureRunState stamping last_ts on every run of the world
ensureRunState_StampsEveryRun(e, runId, ts) ==
  IF Has(e.world.runs, runId)
  THEN [e EXCEPT !.world.runs = [r \in DOMAIN @ |-> [@[r] EXCEPT !.last_ts = ts]]]
  ELSE [e EXCEPT !.world.runs =
          Put([r \in DOMAIN @ |-> [@[r] EXCEPT !.last_ts = ts]], runId, NewRunState(runId, ts))]

\* ensureRunState: the run states of the model always carry every numeric
\* field, so the legacy branches do nothing
ensureRunState(e, runId, ts) ==
  IF Has(e.world.runs, runId)
  THEN [e EXCEPT !.world.runs[runId].last_ts = ts]
  ELSE [e EXCEPT !.world.runs = Put(@, runId, NewRunState(runId, ts))]

\* bumpInternalSeq that never raises internal_seq
bumpInternalSeq_Ignore(e, runId, seq) == e

bumpInternalSeq(e, runId, seq) ==
  IF seq > e.world.runs[runId].internal_seq
  THEN [e EXCEPT !.world.runs[runId].internal_seq = seq]
  ELSE e

\* nextInternalSeq: the new engine; the value returned is its internal_seq
nextInternalSeq(e, runId) == [e EXCEPT !.world.runs[runId].internal_seq = @ + 1]


-----------------------------------------------------------------------------
(* Chapters *)

\* the strings that are sorted at chapter close (tool names, file ids), in
\* sort order
StringOrder ==
  <<"#workspace-salt|src/a.ts", "#workspace-salt|src/b.ts", "shell", "tool.shell.start">>

StringBefore(a, b) == RankIn(StringOrder, a) < RankIn(StringOrder, b)

\* [...S].sort(): the elements of S in ascending order
RECURSIVE SortStrings(_)
SortStrings(S) ==
  IF S = {} THEN <<>>
  ELSE LET m == CHOOSE x \in S : \A y \in S \ {x} : StringBefore(x, y)
       IN <<m>> \o SortStrings(S \ {m})

deriveSafeTitle(event) ==
  LET promptHash == Coalesce(ObjGet(event.attrs, <<"prompt", "_hash">>),
                      Coalesce(ObjGet(event.attrs, <<"prompt", "_stable_hash">>),
                               ObjGet(event.attrs, <<"prompt_id">>)))
      label == Coalesce(ObjGet(event.attrs, <<"label">>), ObjGet(event.attrs, <<"turn_label">>))
  IN IF promptHash.t = "string" /\ JoinSegs(promptHash.v) # ""
     THEN "Prompt " \o JoinSegs(promptHash.v)
     ELSE IF label.t = "string" /\ JoinSegs(label.v) # "" THEN JoinSegs(label.v)
     ELSE ""

\* a chapter state whose started_seq is one past the seq of its first event
NewChapterState_StartsPastEvent(event, turnIndex, eventCount, title) ==
  [run_id |-> event.run_id,
   chapter_id |-> <<event.run_id, turnIndex>>,
   turn_index |-> turnIndex,
   started_ts |-> event.ts,
   started_seq |-> event.seq + 1,
   last_ts |-> event.ts,
   last_seq |-> event.seq,
   title |-> title,
   files_touched |-> {},
   tools_used |-> EmptyMap,
   test_pass |-> 0,
   test_fail |-> 0,
   errors |-> 0,
   backpressure_dropped |-> 0,
   backpressure_summaries |-> 0,
   peak_events_per_sec |-> 0,
   event_count |-> eventCount]

\* the state of a chapter opened by event
NewChapterState(event, turnIndex, eventCount, title) ==
  [run_id |-> event.run_id,
   chapter_id |-> <<event.run_id, turnIndex>>,
   turn_index |-> turnIndex,
   started_ts |-> event.ts,
   started_seq |-> event.seq,
   last_ts |-> event.ts,
   last_seq |-> event.seq,
   title |-> title,
   files_touched |-> {},
   tools_used |-> EmptyMap,
   test_pass |-> 0,
   test_fail |-> 0,
   errors |-> 0,
   backpressure_dropped |-> 0,
   backpressure_summaries |-> 0,
   peak_events_per_sec |-> 0,
   event_count |-> eventCount]

\* openNewChapter without the increment of the run's chapter_count
openNewChapter_SameIndex(e, event) ==
  LET turnIndex == e.world.runs[event.run_id].chapter_count
  IN [e EXCEPT !.openChapters =
        Put(@, event.run_id, NewChapterState(event, turnIndex, 1, deriveSafeTitle(event)))]

\* openNewChapter: the chapter the event starts becomes the run's open chapter
openNewChapter(e, event) ==
  LET turnIndex == e.world.runs[event.run_id].chapter_count + 1
      e1 == [e EXCEPT !.world.runs[event.run_id].chapter_count = turnIndex]
  IN [e1 EXCEPT !.openChapters =
        Put(@, event.run_id, NewChapterState(event, turnIndex, 1, deriveSafeTitle(event)))]

\* ensureOpenChapter opening the implicit chapter without counting it
ensureOpenChapter_NotCounted(e, event) ==
  IF Has(e.openChapters, event.run_id) THEN e
  ELSE LET turnIndex == e.world.runs[event.run_id].chapter_count + 1
       IN [e EXCEPT !.openChapters =
             Put(@, event.run_id, NewChapterState(event, turnIndex, 0, ""))]

\* ensureOpenChapter: an event outside any chapter opens one implicitly
ensureOpenChapter(e, event) ==
  IF Has(e.openChapters, event.run_id) THEN e
  ELSE LET turnIndex == e.world.runs[event.run_id].chapter_count + 1
           e1 == [e EXCEPT !.world.runs[event.run_id].chapter_count = turnIndex]
       IN [e1 EXCEPT !.openChapters =
             Put(@, event.run_id, NewChapterState(event, turnIndex, 0, ""))]

\* chapters.push(summary), trimmed to the most recent maxChaptersInMemory
PushChapter(chapters, summary) ==
  LET all == Append(chapters, summary)
  IN IF Len(all) > DEFAULT_MAX_CHAPTERS
     THEN SubSeq(all, Len(all) - DEFAULT_MAX_CHAPTERS + 1, Len(all))
     ELSE all

MakeSummary(chapter, runId, completedTs, completedSeq, status, threshold) ==
  [run_id |-> runId,
   chapter_id |-> chapter.chapter_id,
   turn_index |-> chapter.turn_index,
   status |-> status,
   started_ts |-> chapter.started_ts,
   completed_ts |-> completedTs,
   duration_ms |-> Max(0, completedTs - chapter.started_ts),
   seq_start |-> chapter.started_seq,
   seq_end |-> completedSeq,
   files_touched |-> SortStrings(chapter.files_touched),
   tools_used |-> LET names == SortStrings(DOMAIN chapter.tools_used)
                  IN [i \in 1..Len(names) |->
                        [k |-> names[i], v |-> chapter.tools_used[names[i]]]],
   tests |-> [pass |-> chapter.test_pass, fail |-> chapter.test_fail],
   errors |-> chapter.errors,
   backpressure |-> [dropped_low_value |-> chapter.backpressure_dropped,
                     peak_events_per_sec |-> chapter.peak_events_per_sec,
                     threshold |-> threshold,
                     summaries_emitted |-> chapter.backpressure_summaries],
   title |-> chapter.title]

\* closeChapter counting a chapter even when the run has none open
closeChapter_CountsAnyway(e, runId, completedTs, completedSeq, status) ==
  IF ~Has(e.openChapters, runId)
  THEN [eng |-> [e EXCEPT !.world.counters.chapters = @ + 1], closed |-> <<>>]
  ELSE LET summary == MakeSummary(e.openChapters[runId], runId, completedTs, completedSeq, status,
                                    e.eventsPerSecondThreshold)
       IN [eng |-> [e EXCEPT !.chapters = PushChapter(@, summary),
                             !.world.counters.chapters = @ + 1,
                             !.world.updated_at = completedTs],
           closed |-> <<summary>>]

\* closeChapter: `closed` is the summary returned, <<>> for undefined.  The
\* open chapter itself is deleted by the caller.
closeChapter(e, runId, completedTs, completedSeq, status) ==
  IF ~Has(e.openChapters, runId) THEN [eng |-> e, closed |-> <<>>]
  ELSE LET summary == MakeSummary(e.openChapters[runId], runId, completedTs, completedSeq, status,
                                    e.eventsPerSecondThreshold)
       IN [eng |-> [e EXCEPT !.chapters = PushChapter(@, summary),
                             !.world.counters.chapters = @ + 1,
                             !.world.updated_at = completedTs],
           closed |-> <<summary>>]

-----------------------------------------------------------------------------
(* The reducer *)

bumpPatchling(e, toolName, ts) ==
  LET id == hashWithSalt(toolName, getWorkspaceSalt(e))
  IN IF Has(e.world.patchlings, id)
     THEN [e EXCEPT !.world.patchlings[id].call_count = @ + 1,
                    !.world.patchlings[id].last_ts = ts]
     ELSE [e EXCEPT !.world.patchlings =
             Put(@, id, [id |-> id, tool_name |-> toolName, call_count |-> 1, last_ts |-> ts])]

ensureRegion(e, regionId, ts) ==
  IF Has(e.world.regions, regionId) THEN e
  ELSE [e EXCEPT !.world.regions =
          Put(@, regionId, [id |-> regionId, file_count |-> 0, touch_count |-> 0, last_ts |-> ts])]

\* bumpFile that moves a file it already knows to the region of the event
bumpFile_Reassign(e, event) ==
  LET ids == getPathLikeHashes(event.attrs)
      pathId == ids.pathId
      region == IF ids.regionId # "" THEN ids.regionId ELSE "region.unknown"
      e1 == ensureRegion(e, region, event.ts)
      e2 == IF Has(e1.world.files, pathId)
            THEN [e1 EXCEPT !.world.files[pathId].touch_count = @ + 1,
                            !.world.files[pathId].region_id = region,
                            !.world.files[pathId].last_ts = event.ts,
                            !.world.files[pathId].last_event_name = event.name]
            ELSE [e1 EXCEPT !.world.files =
                    Put(@, pathId, [id |-> pathId, region_id |-> region, touch_count |-> 1,
                                    last_ts |-> event.ts, last_event_name |-> event.name]),
                            !.world.regions[region].file_count = @ + 1]
  IN IF pathId = "" THEN e
     ELSE [e2 EXCEPT !.world.regions[region].touch_count = @ + 1,
                     !.world.regions[region].last_ts = event.ts,
                     !.openChapters[event.run_id].files_touched = @ \cup {pathId}]

bumpFile(e, event) ==
  LET ids == getPathLikeHashes(event.attrs)
      pathId == ids.pathId
      region == IF ids.regionId # "" THEN ids.regionId ELSE "region.unknown"
      e1 == ensureRegion(e, region, event.ts)
      e2 == IF Has(e1.world.files, pathId)
            THEN [e1 EXCEPT !.world.files[pathId].touch_count = @ + 1,
                            !.world.files[pathId].last_ts = event.ts,
                            !.world.files[pathId].last_event_name = event.name]
            ELSE [e1 EXCEPT !.world.files =
                    Put(@, pathId, [id |-> pathId, region_id |-> region, touch_count |-> 1,
                                    last_ts |-> event.ts, last_event_name |-> event.name]),
                            !.world.regions[region].file_count = @ + 1]
  IN IF pathId = "" THEN e
     ELSE [e2 EXCEPT !.world.regions[region].touch_count = @ + 1,
                     !.world.regions[region].last_ts = event.ts,
                     !.openChapters[event.run_id].files_touched = @ \cup {pathId}]

\* name.toLowerCase() includes "pass" / "fail", over the test names submitted
NameHasPass(name) == name \in {"test.pass"}
NameHasFail(name) == name \in {"test.fail"}

reduceNonTurnEvent(e, event) ==
  LET r == event.run_id IN
  With(IF event.kind = "tool"
       THEN LET toolName == getToolName(event)
                c == e.openChapters[r].tools_used
            IN bumpPatchling(
                 [e EXCEPT !.world.runs[r].tool_count = @ + 1,
                           !.openChapters[r].tools_used =
                              Put(c, toolName, (IF Has(c, toolName) THEN c[toolName] ELSE 0) + 1)],
                 toolName, event.ts)
       ELSE e, LAMBDA e1 :
  With(IF event.kind = "file"
       THEN bumpFile([e1 EXCEPT !.world.runs[r].file_touch_count = @ + 1], event)
       ELSE e1, LAMBDA e2 :
  With(IF event.kind = "test" /\ NameHasPass(event.name)
       THEN [e2 EXCEPT !.world.runs[r].test_pass = @ + 1, !.openChapters[r].test_pass = @ + 1]
       ELSE IF event.kind = "test" /\ NameHasFail(event.name)
       THEN [e2 EXCEPT !.world.runs[r].test_fail = @ + 1, !.openChapters[r].test_fail = @ + 1]
       ELSE e2, LAMBDA e3 :
    IF event.kind = "error" \/ event.severity = "error"
    THEN [e3 EXCEPT !.world.runs[r].error_count = @ + 1, !.openChapters[r].errors = @ + 1]
    ELSE e3)))

\* reduceEvent: `closed` is the chapter summary returned, <<>> for undefined
reduceEvent(e, event) ==
  LET r == event.run_id IN
  With(ensureRunState(e, r, event.ts), LAMBDA e0 :
    IF isTurnStart(event)
    THEN With(closeChapter(e0, r, event.ts, event.seq, "interrupted"), LAMBDA c :
           [eng |-> openNewChapter([c.eng EXCEPT !.openChapters = Del(@, r)], event),
            closed |-> c.closed])
    ELSE IF isTurnEnd(event) # ""
    THEN With(closeChapter(e0, r, event.ts, event.seq, isTurnEnd(event)), LAMBDA c :
           [eng |-> [c.eng EXCEPT !.openChapters = Del(@, r)], closed |-> c.closed])
    ELSE With(ensureOpenChapter(e0, event), LAMBDA e1 :
           [eng |-> reduceNonTurnEvent(
                      [e1 EXCEPT !.openChapters[r].event_count = @ + 1,
                                 !.openChapters[r].last_ts = event.ts,
                                 !.openChapters[r].last_seq = event.seq], event),
            closed |-> <<>>]))

\* acceptEvent without the increment of the world's counters.events
acceptEvent_NoWorldCount(e, event) ==
  LET r == event.run_id IN
  With(reduceEvent([e EXCEPT !.world.runs[r].event_count = @ + 1,
                             !.world.runs[r].last_ts = event.ts,
                             !.world.updated_at = event.ts], event), LAMBDA red :
    [eng |-> red.eng, acceptedEvents |-> <<event>>, closedChapters |-> red.closed])

\* acceptEvent
acceptEvent(e, event) ==
  LET r == event.run_id IN
  With(reduceEvent([e EXCEPT !.world.runs[r].event_count = @ + 1,
                             !.world.runs[r].last_ts = event.ts,
                             !.world.counters.events = @ + 1,
                             !.world.updated_at = event.ts], event), LAMBDA red :
    [eng |-> red.eng, acceptedEvents |-> <<event>>, closedChapters |-> red.closed])

\* ingestInternalEvent
ingestInternalEvent(e, event) ==
  acceptEvent(bumpInternalSeq(e, event.run_id, event.seq), event)

\* for (const internalEvent of events) ingestInternalEvent(...), the results
\* pushed onto acceptedEvents and closedChapters
RECURSIVE IngestInternalAll(_, _, _, _)
IngestInternalAll(e, events, accepted, closed) ==
  IF events = <<>> THEN [eng |-> e, acceptedEvents |-> accepted, closedChapters |-> closed]
  ELSE With(ingestInternalEvent(e, Head(events)), LAMBDA res :
         IngestInternalAll(res.eng, Tail(events), accepted \o res.acceptedEvents,
                           closed \o res.closedChapters))

-----------------------------------------------------------------------------
(* The backpressure aggregator *)

BucketKey(second, kind, name) == <<second, kind, name>>

\* the comparator with the kinds compared the other way round
BucketBefore_KindDescending(a, b) ==
  IF a.second # b.second THEN a.second < b.second
  ELSE IF a.kind # b.kind THEN KindBefore(b.kind, a.kind)
  ELSE NameBefore(a.name, b.name)

\* the comparator of the sort in flushAggregatesForRun
BucketBefore(a, b) ==
  IF a.second # b.second THEN a.second < b.second
  ELSE IF a.kind # b.kind THEN KindBefore(a.kind, b.kind)
  ELSE NameBefore(a.name, b.name)

RECURSIVE SortBuckets(_)
SortBuckets(S) ==
  IF S = {} THEN <<>>
  ELSE LET m == CHOOSE x \in S : \A y \in S \ {x} : BucketBefore(x, y)
       IN <<m>> \o SortBuckets(S \ {m})

\* makeBackpressureSummaryEvent: the engine with the run's internal_seq
\* advanced, and the redacted event
makeBackpressureSummaryEvent(e, bucket, runSalt, workspaceSalt) ==
  With(nextInternalSeq(e, bucket.run_id), LAMBDA e1 :
    LET seq == e1.world.runs[bucket.run_id].internal_seq
        upstream == e1.world.runs[bucket.run_id].last_upstream_seq
        candidate ==
          Event(bucket.run_id, seq, IF upstream >= 0 THEN upstream ELSE NoSeq, bucket.last_ts,
                "metric", "metric.backpressure.summary", "info", TRUE,
                << [k |-> <<"patchlings_internal">>, v |-> Bool(TRUE)],
                   [k |-> <<"second">>, v |-> Num(bucket.second)],
                   [k |-> <<"source_kind">>, v |-> Str(bucket.kind)],
                   [k |-> <<"source_name">>, v |-> Str(bucket.name)],
                   [k |-> <<"count">>, v |-> Num(bucket.count)],
                   [k |-> <<"threshold">>, v |-> Num(e.eventsPerSecondThreshold)] >>)
    IN [eng |-> e1, event |-> redactEvent(candidate, runSalt, workspaceSalt)])

\* the loop of flushAggregatesForRun over the sorted buckets
RECURSIVE FlushBuckets(_, _, _, _, _)
FlushBuckets(e, buckets, events, runSalt, workspaceSalt) ==
  IF buckets = <<>> THEN [eng |-> e, events |-> events]
  ELSE LET bucket == Head(buckets)
           r == bucket.run_id
       IN
       With(makeBackpressureSummaryEvent(
              [e EXCEPT !.aggregates[r] =
                 Del(@, BucketKey(bucket.second, bucket.kind, bucket.name))],
              bucket, runSalt, workspaceSalt), LAMBDA made :
       With(IF Has(made.eng.openChapters, r)
            THEN [made.eng EXCEPT !.openChapters[r].backpressure_summaries = @ + 1]
            ELSE made.eng, LAMBDA e2 :
         FlushBuckets([e2 EXCEPT !.world.counters.backpressure_summaries = @ + 1],
                      Tail(buckets), Append(events, made.event), runSalt, workspaceSalt)))

\* flushAggregatesForRun: the engine after the flush and the synthesized events
flushAggregatesForRun(e, runId, uptoSecond, fresh) ==
  IF ~Has(e.aggregates, runId) \/ DOMAIN e.aggregates[runId] = {}
  THEN [eng |-> e, events |-> <<>>]
  ELSE LET perRun == e.aggregates[runId] IN
       With(SortBuckets({perRun[k] : k \in {x \in DOMAIN perRun : perRun[x].second < uptoSecond}}),
            LAMBDA buckets :
         IF buckets = <<>> THEN [eng |-> e, events |-> <<>>]
         ELSE With(getRunSalt(e, runId, fresh), LAMBDA salted :
              With(FlushBuckets(salted.eng, buckets, <<>>, salted.salt, getWorkspaceSalt(e)),
                   LAMBDA done :
                [eng |-> IF DOMAIN done.eng.aggregates[runId] = {}
                         THEN [done.eng EXCEPT !.aggregates = Del(@, runId)]
                         ELSE done.eng,
                 events |-> done.events])))

\* the bucket update that keeps the count of an existing bucket
FoldedBucket_KeepCount(perRun, key, event) ==
  IF Has(perRun, key)
  THEN [perRun[key] EXCEPT !.last_ts = event.ts]
  ELSE [run_id |-> event.run_id, second |-> tsToSecond(event.ts), kind |-> event.kind,
        name |-> event.name, count |-> 1, last_ts |-> event.ts]

\* the bucket of the key after the event is folded into it
FoldedBucket(perRun, key, event) ==
  IF Has(perRun, key)
  THEN [perRun[key] EXCEPT !.count = @ + 1, !.last_ts = event.ts]
  ELSE [run_id |-> event.run_id, second |-> tsToSecond(event.ts), kind |-> event.kind,
        name |-> event.name, count |-> 1, last_ts |-> event.ts]

\* aggregateLowValueEvent that leaves the world counter alone
aggregateLowValueEvent_NoWorldCount(e, event) ==
  LET r == event.run_id
      second == tsToSecond(event.ts)
      key == BucketKey(second, event.kind, event.name)
      perRun == IF Has(e.aggregates, r) THEN e.aggregates[r] ELSE EmptyMap
      bucket == FoldedBucket(perRun, key, event)
  IN With([e EXCEPT !.aggregates = Put(@, r, Put(perRun, key, bucket)),
                    !.world.runs[r].dropped_low_value_events = @ + 1], LAMBDA e1 :
       IF Has(e1.openChapters, r)
       THEN [e1 EXCEPT !.openChapters[r].backpressure_dropped = @ + 1]
       ELSE e1)

\* aggregateLowValueEvent; the chapter argument is the run's open chapter
aggregateLowValueEvent(e, event) ==
  LET r == event.run_id
      second == tsToSecond(event.ts)
      key == BucketKey(second, event.kind, event.name)
      perRun == IF Has(e.aggregates, r) THEN e.aggregates[r] ELSE EmptyMap
      bucket == FoldedBucket(perRun, key, event)
  IN With([e EXCEPT !.aggregates = Put(@, r, Put(perRun, key, bucket)),
                    !.world.runs[r].dropped_low_value_events = @ + 1,
                    !.world.counters.dropped_low_value_events = @ + 1], LAMBDA e1 :
       IF Has(e1.openChapters, r)
       THEN [e1 EXCEPT !.openChapters[r].backpressure_dropped = @ + 1]
       ELSE e1)

\* applyBackpressure counting only the low-value events of a second
applyBackpressure_LowValueOnly(e, event, fresh) ==
  IF isInternalEvent(event) THEN [eng |-> e, aggregated |-> FALSE, flushedEvents |-> <<>>]
  ELSE
  LET r == event.run_id
      second == tsToSecond(event.ts)
      known == Has(e.backpressure, r)
      rolled == known /\ e.backpressure[r].second # second
      count == (IF known /\ ~rolled THEN e.backpressure[r].count ELSE 0)
               + (IF isLowValueEvent(event) THEN 1 ELSE 0)
  IN
  With(IF rolled THEN flushAggregatesForRun(e, r, second, fresh)
       ELSE [eng |-> e, events |-> <<>>], LAMBDA flushed :
  With([flushed.eng EXCEPT
          !.backpressure = Put(@, r, [second |-> second, count |-> count]),
          !.world.runs[r].peak_events_per_sec = Max(@, count)], LAMBDA e1 :
  With(IF Has(e1.openChapters, r)
       THEN [e1 EXCEPT !.openChapters[r].peak_events_per_sec = Max(@, count)]
       ELSE e1, LAMBDA e2 :
    IF count <= e.eventsPerSecondThreshold
    THEN [eng |-> e2, aggregated |-> FALSE, flushedEvents |-> flushed.events]
    ELSE IF ~isLowValueEvent(event)
    THEN [eng |-> e2, aggregated |-> FALSE, flushedEvents |-> flushed.events]
    ELSE [eng |-> aggregateLowValueEvent(e2, event), aggregated |-> TRUE,
          flushedEvents |-> flushed.events])))

\* applyBackpressure
applyBackpressure(e, event, fresh) ==
  IF isInternalEvent(event) THEN [eng |-> e, aggregated |-> FALSE, flushedEvents |-> <<>>]
  ELSE
  LET r == event.run_id
      second == tsToSecond(event.ts)
      known == Has(e.backpressure, r)
      rolled == known /\ e.backpressure[r].second # second
      count == (IF known /\ ~rolled THEN e.backpressure[r].count ELSE 0) + 1
  IN
  With(IF rolled THEN flushAggregatesForRun(e, r, second, fresh)
       ELSE [eng |-> e, events |-> <<>>], LAMBDA flushed :
  With([flushed.eng EXCEPT
          !.backpressure = Put(@, r, [second |-> second, count |-> count]),
          !.world.runs[r].peak_events_per_sec = Max(@, count)], LAMBDA e1 :
  With(IF Has(e1.openChapters, r)
       THEN [e1 EXCEPT !.openChapters[r].peak_events_per_sec = Max(@, count)]
       ELSE e1, LAMBDA e2 :
    IF count <= e.eventsPerSecondThreshold
    THEN [eng |-> e2, aggregated |-> FALSE, flushedEvents |-> flushed.events]
    ELSE IF ~isLowValueEvent(event)
    THEN [eng |-> e2, aggregated |-> FALSE, flushedEvents |-> flushed.events]
    ELSE [eng |-> aggregateLowValueEvent(e2, event), aggregated |-> TRUE,
          flushedEvents |-> flushed.events])))

-----------------------------------------------------------------------------
(* The per-event pipeline *)

\* the duplicate test with < for <=: a replayed seq is accepted again
IsDuplicateSeq_Strict(upstream, lastUpstreamSeq) == upstream < lastUpstreamSeq

\* upstream <= runState.last_upstream_seq
IsDuplicateSeq(upstream, lastUpstreamSeq) == upstream <= lastUpstreamSeq

Result(e, accepted, closed, low, dup) ==
  [eng |-> e, acceptedEvents |-> accepted, closedChapters |-> closed,
   droppedLowValueEvents |-> low, droppedDuplicateEvents |-> dup]

ingestExternalEvent(e, event, fresh) ==
  With(getRunSalt(e, event.run_id, fresh), LAMBDA salted :
  With(redactEvent(event, salted.salt, getWorkspaceSalt(e)), LAMBDA safeEvent :
  LET r == safeEvent.run_id
      upstream == upstreamSeq(safeEvent)
  IN
  With(ensureRunState(salted.eng, r, safeEvent.ts), LAMBDA e0 :
  With(IF isTurnStart(safeEvent) \/ isTurnEnd(safeEvent) # ""
       THEN flushAggregatesForRun(e0, r, POSITIVE_INFINITY, fresh)
       ELSE [eng |-> e0, events |-> <<>>], LAMBDA boundaryFlush :
  With(IngestInternalAll(boundaryFlush.eng, boundaryFlush.events, <<>>, <<>>), LAMBDA b :
  With(applyBackpressure(b.eng, safeEvent, fresh), LAMBDA backpressureResult :
  With(IngestInternalAll(backpressureResult.eng, backpressureResult.flushedEvents,
                         b.acceptedEvents, b.closedChapters), LAMBDA f :
    IF backpressureResult.aggregated
    THEN Result(f.eng, f.acceptedEvents, f.closedChapters, 1, 0)
    ELSE IF IsDuplicateSeq(upstream, f.eng.world.runs[r].last_upstream_seq)
    THEN Result([f.eng EXCEPT !.world.runs[r].duplicate_events = @ + 1,
                              !.world.counters.duplicate_events = @ + 1],
                f.acceptedEvents, f.closedChapters, 0, 1)
    ELSE With(acceptEvent(
                bumpInternalSeq([f.eng EXCEPT !.world.runs[r].last_upstream_seq = upstream],
                                r, safeEvent.seq),
                safeEvent), LAMBDA acceptedResult :
           Result(acceptedResult.eng, f.acceptedEvents \o acceptedResult.acceptedEvents,
                  f.closedChapters \o acceptedResult.closedChapters, 0, 0)))))))))

ingestOne(e, event, fresh) ==
  IF isInternalEvent(event)
  THEN With(ingestInternalEvent(ensureRunState(e, event.run_id, event.ts), event), LAMBDA res :
         Result(res.eng, res.acceptedEvents, res.closedChapters, 0, 0))
  ELSE ingestExternalEvent(e, event, fresh)

\* flushRunAggregates flushing only the seconds before the one being counted
flushRunAggregates_KeepsCurrentSecond(e, runId, now, fresh) ==
  With(flushAggregatesForRun(
         ensureRunState(e, runId,
           IF Has(e.world.runs, runId) THEN e.world.runs[runId].last_ts ELSE now),
         runId, IF Has(e.backpressure, runId) THEN e.backpressure[runId].second ELSE 0,
         fresh), LAMBDA flushed :
  With(IngestInternalAll(flushed.eng, flushed.events, <<>>, <<>>), LAMBDA res :
    Result(res.eng, res.acceptedEvents, res.closedChapters, 0, 0)))

\* flushRunAggregates: `now` is Date.now()
flushRunAggregates(e, runId, now, fresh) ==
  With(flushAggregatesForRun(
         ensureRunState(e, runId,
           IF Has(e.world.runs, runId) THEN e.world.runs[runId].last_ts ELSE now),
         runId, POSITIVE_INFINITY, fresh), LAMBDA flushed :
  With(IngestInternalAll(flushed.eng, flushed.events, <<>>, <<>>), LAMBDA res :
    Result(res.eng, res.acceptedEvents, res.closedChapters, 0, 0)))

-----------------------------------------------------------------------------
(* Storage: the files of the patchlings directory.  A file that holds one  *)
(* JSON document is <<>> when it is missing or unreadable and <<doc>>      *)
(* otherwise; an optional number of a document is <<>> or <<n>>.           *)

\* JSON.stringify of a run state: every field of RunState is a number or a
\* string and is written; last_seq is the field older versions wrote
StoredRun(run) ==
  [run_id |-> run.run_id, chapter_count |-> run.chapter_count,
   event_count |-> run.event_count, tool_count |-> run.tool_count,
   file_touch_count |-> run.file_touch_count, test_pass |-> run.test_pass,
   test_fail |-> run.test_fail, error_count |-> run.error_count,
   dropped_low_value_events |-> run.dropped_low_value_events,
   duplicate_events |-> run.duplicate_events,
   peak_events_per_sec |-> run.peak_events_per_sec, last_ts |-> run.last_ts,
   last_seq |-> <<>>,
   last_upstream_seq |-> <<run.last_upstream_seq>>,
   internal_seq |-> <<run.internal_seq>>,
   recording_index |-> <<run.recording_index>>,
   recording_bytes |-> <<run.recording_bytes>>]

\* normalizeRunState without the clamp of internal_seq to the offset
normalizeRunState_NoClamp(run) ==
  LET lastSeq == IF run.last_seq # <<>> THEN run.last_seq[1] ELSE -1
      lastUpstream == IF run.last_upstream_seq # <<>> THEN run.last_upstream_seq[1] ELSE lastSeq
      internalSeq == IF run.internal_seq # <<>> THEN run.internal_seq[1] ELSE INTERNAL_SEQ_OFFSET
  IN [run_id |-> run.run_id, chapter_count |-> run.chapter_count,
      event_count |-> run.event_count, tool_count |-> run.tool_count,
      file_touch_count |-> run.file_touch_count, test_pass |-> run.test_pass,
      test_fail |-> run.test_fail, error_count |-> run.error_count,
      dropped_low_value_events |-> run.dropped_low_value_events,
      duplicate_events |-> run.duplicate_events,
      peak_events_per_sec |-> run.peak_events_per_sec,
      last_upstream_seq |-> lastUpstream, internal_seq |-> internalSeq,
      last_ts |-> run.last_ts,
      recording_index |-> IF run.recording_index # <<>> THEN run.recording_index[1] ELSE 0,
      recording_bytes |-> IF run.recording_bytes # <<>> THEN run.recording_bytes[1] ELSE 0]

\* normalizeRunState: the run state of a world document that was read
normalizeRunState(run) ==
  LET lastSeq == IF run.last_seq # <<>> THEN run.last_seq[1] ELSE -1
      lastUpstream == IF run.last_upstream_seq # <<>> THEN run.last_upstream_seq[1] ELSE lastSeq
      internalSeqCandidate ==
        IF run.internal_seq # <<>> THEN run.internal_seq[1] ELSE INTERNAL_SEQ_OFFSET
      internalSeq == IF internalSeqCandidate < INTERNAL_SEQ_OFFSET
                     THEN INTERNAL_SEQ_OFFSET ELSE internalSeqCandidate
  IN [run_id |-> run.run_id, chapter_count |-> run.chapter_count,
      event_count |-> run.event_count, tool_count |-> run.tool_count,
      file_touch_count |-> run.file_touch_count, test_pass |-> run.test_pass,
      test_fail |-> run.test_fail, error_count |-> run.error_count,
      dropped_low_value_events |-> run.dropped_low_value_events,
      duplicate_events |-> run.duplicate_events,
      peak_events_per_sec |-> run.peak_events_per_sec,
      last_upstream_seq |-> lastUpstream, internal_seq |-> internalSeq,
      last_ts |-> run.last_ts,
      recording_index |-> IF run.recording_index # <<>> THEN run.recording_index[1] ELSE 0,
      recording_bytes |-> IF run.recording_bytes # <<>> THEN run.recording_bytes[1] ELSE 0]

\* JSON.stringify of the world: the document written to world.json
StoredWorld(world) ==
  [v |-> WORLD_VERSION,
   world |-> [world EXCEPT !.runs = [r \in DOMAIN world.runs |-> StoredRun(world.runs[r])]]]

\* normalizeWorld: `file` is what readJson returned for world.json
normalizeWorld(file, workspaceId, now) ==
  IF file = <<>> \/ file[1].v # WORLD_VERSION
  THEN makeWorld(workspaceId, now)
  ELSE [file[1].world EXCEPT
          !.workspace_id = workspaceId,
          !.runs = [r \in DOMAIN file[1].world.runs |-> normalizeRunState(file[1].world.runs[r])]]

\* chapters.slice(-maxChaptersInMemory) of the lines of chapters.ndjson
TrimChapters(lines) ==
  IF Len(lines) > DEFAULT_MAX_CHAPTERS
  THEN SubSeq(lines, Len(lines) - DEFAULT_MAX_CHAPTERS + 1, Len(lines))
  ELSE lines

\* PatchlingsEngine.create in fs mode, after SaltManager.create returned
\* `salts`: the engine built from what the directory holds
LoadEngine(salts, disk, now) ==
  [salts |-> salts,
   world |-> normalizeWorld(disk.world, hashWithSalt("/workspace", salts.workspace_salt), now),
   chapters |-> TrimChapters(disk.chapters),
   openChapters |-> EmptyMap,
   backpressure |-> EmptyMap,
   aggregates |-> EmptyMap,
   eventsPerSecondThreshold |-> eventsPerSecondThreshold]

\* the directory: world.json, the lines of chapters.ndjson, salts.json
Disk(world, chapters, salts) == [world |-> world, chapters |-> chapters, salts |-> salts]

\* storageMode "memory": no directory
MemoryMode == [disk |-> Disk(<<>>, <<>>, <<>>)]

-----------------------------------------------------------------------------
(* The state machine: a single serial caller drives an engine in memory    *)
(* mode.  An ingestBatch call is the steps IngestEvent, one per iteration  *)
(* of its loop over the batch; `batch` holds the accumulators of the call, *)
(* which are what it returns when the loop ends (in memory mode nothing    *)
(* else of the call touches the engine).  Batches hold up to MaxBatch      *)
(* events.                                                                 *)

Runs == {"run-1", "run-2"}

\* fixedSalts of the engine's tests
WorkspaceSalt == "workspace-salt"
RunSalts == [r \in Runs |-> IF r = "run-1" THEN "run-salt" ELSE "run-salt-2"]

\* what createSalt() would return in eng and in engB; never needed when every
\* run has a fixed salt
FreshSalt == "fresh-salt"
FreshSaltB == "fresh-salt-b"

\* the shapes of the events submitted: kind, name, severity, internal, attrs
Shape(kind, name, severity, internal, attrs) ==
  [kind |-> kind, name |-> name, severity |-> severity, internal |-> internal, attrs |-> attrs]

TurnStarted == Shape("turn", "turn.started", "none", FALSE, <<>>)
TurnCompleted == Shape("turn", "turn.completed", "none", FALSE, <<>>)
TurnFailed == Shape("turn", "turn.failed", "none", FALSE, <<>>)
LogProgress == Shape("log", "log.progress", "debug", FALSE, <<>>)
Heartbeat == Shape("metric", "metric.heartbeat", "none", FALSE, <<>>)
ToolStart == Shape("tool", "tool.shell.start", "none", FALSE,
                   << [k |-> <<"tool_name">>, v |-> Str("shell")] >>)
LogLine == Shape("log", "log.line", "none", FALSE, <<>>)
DebugTool == Shape("tool", "tool.shell.start", "debug", FALSE,
                   << [k |-> <<"tool_name">>, v |-> Str("shell")] >>)
FileWrite == Shape("file", "file.write", "none", FALSE,
                   << [k |-> <<"path">>, v |-> PathStr(<<"src", "a.ts">>)] >>)
InternalTurnCompleted == Shape("turn", "turn.completed", "none", TRUE, <<>>)
DebugTurnCompleted == Shape("turn", "turn.completed", "debug", FALSE, <<>>)

\* file events: a raw path; the same file as a source that already hashed
\* it reports it, under another directory; a file reported with its hash and
\* no directory; the path of that file
FileMoved == Shape("file", "file.rename", "none", FALSE,
                   << [k |-> <<"path", "_stable_hash">>,
                       v |-> Str(hashPath(<<"src", "a.ts">>, WorkspaceSalt))],
                      [k |-> <<"path", "_stable_dir_hash">>,
                       v |-> Str(hashPath(<<"lib">>, WorkspaceSalt))] >>)
FileNoDir == Shape("file", "file.read", "none", FALSE,
                   << [k |-> <<"path", "_stable_hash">>,
                       v |-> Str(hashPath(<<"src", "b.ts">>, WorkspaceSalt))] >>)
FileWriteB == Shape("file", "file.write", "none", FALSE,
                    << [k |-> <<"path">>, v |-> PathStr(<<"src", "b.ts">>)] >>)

EventOf(r, shape, seq, ts) ==
  Event(r, seq, NoSeq, ts, shape.kind, shape.name, shape.severity, shape.internal, shape.attrs)

\* the seq a source may send for a run: the next one, the last one again (a
\* replayed line), or one after a gap
LastSeq(e, r) == IF Has(e.world.runs, r) THEN e.world.runs[r].last_upstream_seq ELSE -1
NextSeq(e, r) == LastSeq(e, r) + 1
SameSeq(e, r) == Max(LastSeq(e, r), 0)
GapSeq(e, r) == LastSeq(e, r) + 2

\* the events submitted under Spec: a source that replays lines, skips seqs,
\* relays upstream seqs and logs its progress
Submitted(e) ==
  {EventOf("run-1", sh, NextSeq(e, "run-1"), 0) :
     sh \in {ToolStart, LogProgress, TurnStarted, InternalTurnCompleted}}
  \cup {EventOf("run-1", LogProgress, NextSeq(e, "run-1"), 1000)}
  \cup {EventOf("run-1", ToolStart, SameSeq(e, "run-1"), 0)}
  \cup {EventOf("run-1", LogProgress, SameSeq(e, "run-1"), 1000)}
  \cup {EventOf("run-1", ToolStart, GapSeq(e, "run-1"), 0)}
  \cup {[EventOf("run-1", ToolStart, 0, 0) EXCEPT !.upstream_seq = NextSeq(e, "run-1")]}
  \cup {EventOf("run-2", LogProgress, NextSeq(e, "run-2"), 0)}

\* the events submitted under SpecTurns: turns that start, end, are
\* interrupted, with work and progress lines in between
Turns(e) ==
  {EventOf("run-1", sh, NextSeq(e, "run-1"), 0) :
     sh \in {TurnStarted, TurnCompleted, TurnFailed, ToolStart, LogProgress,
             InternalTurnCompleted, DebugTurnCompleted}}
  \cup {EventOf("run-1", TurnStarted, NextSeq(e, "run-1"), 1000)}
  \cup {EventOf("run-1", TurnCompleted, SameSeq(e, "run-1"), 0)}
  \cup {EventOf("run-2", TurnStarted, NextSeq(e, "run-2"), 0)}

\* the events submitted to both engines under SpecDet
Replayed(e) ==
  {EventOf("run-1", sh, NextSeq(e, "run-1"), 0) :
     sh \in {TurnStarted, TurnCompleted, LogProgress, FileWrite}}
  \cup {EventOf("run-1", LogProgress, NextSeq(e, "run-1"), 1000)}
  \cup {EventOf("run-1", ToolStart, SameSeq(e, "run-1"), 0)}
  \cup {EventOf("run-2", FileWrite, NextSeq(e, "run-2"), 0)}

\* the events submitted under SpecFlood: a flood of low-value events
Flood(e) ==
  {EventOf("run-1", sh, NextSeq(e, "run-1"), 0) :
     sh \in {Heartbeat, LogLine, DebugTool, ToolStart, TurnStarted}}
  \cup {EventOf("run-1", Heartbeat, NextSeq(e, "run-1"), 1000)}
  \cup {EventOf("run-2", Heartbeat, NextSeq(e, "run-2"), 0)}

\* the events submitted under SpecOrder: low-value events of several kinds
\* and names in two seconds, turn events, and a replayed turn.completed
Order(e) ==
  {EventOf("run-1", sh, NextSeq(e, "run-1"), 0) :
     sh \in {Heartbeat, LogLine, LogProgress, TurnStarted}}
  \cup {EventOf("run-1", Heartbeat, NextSeq(e, "run-1"), 1000)}
  \cup {EventOf("run-1", TurnCompleted, SameSeq(e, "run-1"), 0)}

\* the accumulators of ingestBatch before its loop; n counts the iterations
EmptyBatch ==
  [n |-> 0, acceptedEvents |-> <<>>, closedChapters |-> <<>>,
   droppedLowValueEvents |-> 0, droppedDuplicateEvents |-> 0]

\* the accumulators after an iteration that got `res` from ingestOne
AddToBatch(b, res) ==
  [n |-> b.n + 1,
   acceptedEvents |-> b.acceptedEvents \o res.acceptedEvents,
   closedChapters |-> b.closedChapters \o res.closedChapters,
   droppedLowValueEvents |-> b.droppedLowValueEvents + res.droppedLowValueEvents,
   droppedDuplicateEvents |-> b.droppedDuplicateEvents + res.droppedDuplicateEvents]

\* an entry of the history: the operation, the event submitted and the
\* result of ingestOne (or of flushRunAggregates)
Step(op, event, res) ==
  [op |-> op, event |-> event, acceptedEvents |-> res.acceptedEvents,
   closedChapters |-> res.closedChapters,
   droppedLowValueEvents |-> res.droppedLowValueEvents,
   droppedDuplicateEvents |-> res.droppedDuplicateEvents]

\* Date.now() when eng and when engB is created
CreatedAt == 5000
CreatedAtB == 6000

Init ==
  /\ eng = CreateEngine(WorkspaceSalt, RunSalts, CreatedAt)
  /\ engB = CreateEngine(WorkspaceSalt, RunSalts, CreatedAtB)
  /\ batch = EmptyBatch
  /\ log = <<>>
  /\ logB = <<>>
  /\ fs = MemoryMode

\* one iteration of the loop of ingestBatch on eng; a full batch has been
\* returned and the iteration is the first of the next call
IngestEvent(event) ==
  /\ \E res \in {ingestOne(eng, event, FreshSalt)} :
       /\ eng' = res.eng
       /\ log' = Append(log, Step("ingest", event, res))
       /\ batch' = AddToBatch(IF batch.n = MaxBatch THEN EmptyBatch ELSE batch, res)
  /\ UNCHANGED <<engB, logB, fs>>

\* engB is fed the next event of the sequence eng was fed
ReplayB ==
  /\ Len(logB) < Len(log)
  /\ \E res \in {ingestOne(engB, log[Len(logB) + 1].event, FreshSaltB)} :
       /\ engB' = res.eng
       /\ logB' = Append(logB, Step("ingest", log[Len(logB) + 1].event, res))
  /\ UNCHANGED <<eng, batch, log, fs>>

Next ==
  /\ Len(log) < MaxEvents
  /\ \E event \in Submitted(eng) : IngestEvent(event)

Spec == Init /\ [][Next]_vars

\* two engines created with the same options and salts, at different times,
\* and fed the same events
NextDet ==
  \/ /\ Len(log) < MaxReplay
     /\ \E event \in Replayed(eng) : IngestEvent(event)
  \/ ReplayB

SpecDet == Init /\ [][NextDet]_vars

\* a source that floods the engine with low-value events
NextFlood ==
  /\ Len(log) < MaxFlood
  /\ \E event \in Flood(eng) : IngestEvent(event)

SpecFlood == Init /\ [][NextFlood]_vars

\* a source whose low-value events fill several buckets
NextOrder ==
  /\ Len(log) < MaxOrder
  /\ \E event \in Order(eng) : IngestEvent(event)

SpecOrder == Init /\ [][NextOrder]_vars

\* a source that reports the turns of its runs
NextTurns ==
  /\ Len(log) < MaxTurns
  /\ \E event \in Turns(eng) : IngestEvent(event)

SpecTurns == Init /\ [][NextTurns]_vars

\* the events submitted under SpecFiles: files reported by path and by
\* hash, by two runs
Files(e) ==
  {EventOf("run-1", sh, NextSeq(e, "run-1"), 0) :
     sh \in {FileWrite, FileMoved, FileNoDir, FileWriteB, TurnStarted}}
  \cup {EventOf("run-2", FileMoved, NextSeq(e, "run-2"), 0)}

NextFiles ==
  /\ Len(log) < MaxFiles
  /\ \E event \in Files(eng) : IngestEvent(event)

SpecFiles == Init /\ [][NextFiles]_vars

-----------------------------------------------------------------------------
(* An engine in fs mode without fixed salts and without recording.  An     *)
(* ingestBatch call is its loop (IngestFs, one step per event), the write  *)
(* of world.json (WriteWorld), the write of salts.json (WriteSalts) and    *)
(* the wait for the pending writes (Flushed).  A chapter append is issued  *)
(* when the chapter closes and completes on its own (AppendSettles), in    *)
(* any order with the other requests in flight.  A write that fails leaves *)
(* the file as it was or, when the failure comes after the file was        *)
(* truncated, unreadable.  The process may die at any point and a new      *)
(* engine be created over the directory (CrashAndCreate).                  *)
(*                                                                         *)
(* fs.writes is pendingWrites; fs.pc is where the call in progress is;     *)
(* fs.outcome is how the last call ended; fs.callErrors counts the I/O     *)
(* errors since the last call began; fs.completed is the salts the engine  *)
(* held when a call last resolved; fs.lost is the open chapters at the     *)
(* last crash, fs.crashedAt the length of the history then and             *)
(* fs.betweenCalls whether no call was in progress or had rejected then.   *)

\* createSalt(): random bytes, the n-th draw differs from every other one
createSalt(n) == "salt-" \o ToString(n)

NoSalts == [workspace_salt |-> "", runs |-> EmptyMap]

\* SaltManager.create without fixed salts: `file` is what readJson returned
\* for salts.json; a new workspace salt is written at once
SaltManagerCreate(file, fresh) ==
  IF file # <<>> /\ file[1].workspace_salt # ""
  THEN [salts |-> file[1], drew |-> FALSE]
  ELSE [salts |-> [workspace_salt |-> fresh, runs |-> EmptyMap], drew |-> TRUE]

\* closeChapter's pendingWrites.push(appendChapter(summary)) for the
\* chapters an iteration closed: the appendFile requests are in flight
PushAppends(writes, closed) ==
  writes \o [i \in 1..Len(closed) |-> [summary |-> closed[i], st |-> "flight"]]

\* the events submitted under SpecFs: turns of two runs
FsEvents(e) ==
  {EventOf("run-1", sh, NextSeq(e, "run-1"), 0) : sh \in {TurnStarted, TurnCompleted}}
  \cup {EventOf("run-2", TurnStarted, NextSeq(e, "run-2"), 0)}

\* create over an empty directory
InitFs ==
  /\ eng = LoadEngine(SaltManagerCreate(<<>>, createSalt(1)).salts, Disk(<<>>, <<>>, <<>>), CreatedAt)
  /\ fs = [disk |-> Disk(<<StoredWorld(eng.world)>>, <<>>, <<eng.salts>>),
           writes |-> <<>>, pc |-> "idle", outcome |-> "none",
           errors |-> 0, callErrors |-> 0, crashes |-> 0, drawn |-> 1,
           completed |-> NoSalts, lost |-> EmptyMap, crashedAt |-> 0,
           betweenCalls |-> TRUE]
  /\ engB = CreateEngine(WorkspaceSalt, RunSalts, CreatedAtB)
  /\ batch = EmptyBatch
  /\ log = <<>>
  /\ logB = <<>>

\* one iteration of the loop of ingestBatch; the first one begins the call
IngestFs(event) ==
  /\ fs.pc \in {"idle", "loop"}
  /\ fs.pc = "loop" => batch.n < MaxBatch
  /\ \E res \in {ingestOne(eng, event, createSalt(fs.drawn + 1))} :
       /\ eng' = res.eng
       /\ log' = Append(log, Step("ingest", event, res))
       /\ batch' = AddToBatch(IF fs.pc = "idle" THEN EmptyBatch ELSE batch, res)
       /\ fs' = [fs EXCEPT
                   !.pc = "loop",
                   !.outcome = "none",
                   !.callErrors = IF fs.pc = "idle" THEN 0 ELSE @,
                   !.writes = PushAppends(@, res.closedChapters),
                   !.drawn = IF DOMAIN res.eng.salts.runs # DOMAIN eng.salts.runs
                             THEN @ + 1 ELSE @]
  /\ UNCHANGED <<engB, logB>>

\* an I/O error may still be injected
MayFail == fs.errors < MaxErrors

Failed(f) == [f EXCEPT !.errors = @ + 1, !.callErrors = @ + 1]

\* the loop is over and `await this.persistWorld()` ends: the world is
\* written, or writeFile fails and the call rejects
WriteWorld ==
  /\ fs.pc = "loop"
  /\ \/ fs' = [fs EXCEPT !.disk.world = <<StoredWorld(eng.world)>>, !.pc = "salts"]
     \/ /\ MayFail
        /\ \E file \in {fs.disk.world, <<>>} :
             fs' = [Failed(fs) EXCEPT !.disk.world = file, !.pc = "idle",
                                      !.outcome = "rejected"]
  /\ UNCHANGED <<eng, engB, batch, log, logB>>

\* `await this.salts.persist()` ends: salts.json is written, or writeFile
\* fails and the call rejects
WriteSalts ==
  /\ fs.pc = "salts"
  /\ \/ fs' = [fs EXCEPT !.disk.salts = <<eng.salts>>, !.pc = "flush"]
     \/ /\ MayFail
        /\ \E file \in {fs.disk.salts, <<>>} :
             fs' = [Failed(fs) EXCEPT !.disk.salts = file, !.pc = "idle",
                                      !.outcome = "rejected"]
  /\ UNCHANGED <<eng, engB, batch, log, logB>>

\* the appendFile of a pending chapter write completes: the line is at the
\* end of chapters.ndjson, or the request failed and nothing was written
AppendSettles(i) ==
  /\ fs.writes[i].st = "flight"
  /\ \/ fs' = [fs EXCEPT !.disk.chapters = Append(@, fs.writes[i].summary),
                          !.writes[i].st = "ok"]
     \/ /\ MayFail
        /\ fs' = [Failed(fs) EXCEPT !.writes[i].st = "failed"]
  /\ UNCHANGED <<eng, engB, batch, log, logB>>

\* flushPendingWrites: Promise.allSettled of the pending writes is over and
\* ingestBatch returns its result
Flushed ==
  /\ fs.pc = "flush"
  /\ \A i \in 1..Len(fs.writes) : fs.writes[i].st # "flight"
  /\ fs' = [fs EXCEPT !.writes = <<>>, !.pc = "idle", !.outcome = "resolved",
                      !.completed = eng.salts]
  /\ UNCHANGED <<eng, engB, batch, log, logB>>

\* what readJson may return for a file: its document, or undefined when
\* the file is unreadable or readFile fails
ReadJson(file) == IF file # <<>> /\ MayFail THEN {file, <<>>} ELSE {file}

\* the process dies, the requests in flight are lost, and create builds a
\* new engine from what it reads in the directory and writes world.json
\* and salts.json
CrashAndCreate ==
  /\ fs.crashes < MaxCrashes
  /\ \E saltsFile \in ReadJson(fs.disk.salts) :
     \E worldFile \in (IF saltsFile = fs.disk.salts THEN ReadJson(fs.disk.world)
                        ELSE {fs.disk.world}) :
     \E sm \in {SaltManagerCreate(saltsFile, createSalt(fs.drawn + 1))} :
       /\ eng' = LoadEngine(sm.salts, Disk(worldFile, fs.disk.chapters, saltsFile), CreatedAt)
       /\ fs' = [fs EXCEPT
                   !.disk = Disk(<<StoredWorld(eng'.world)>>, fs.disk.chapters, <<sm.salts>>),
                   !.writes = <<>>, !.pc = "idle", !.outcome = "none", !.callErrors = 0,
                   !.errors = IF saltsFile # fs.disk.salts \/ worldFile # fs.disk.world
                              THEN @ + 1 ELSE @,
                   !.crashes = @ + 1,
                   !.drawn = IF sm.drew THEN @ + 1 ELSE @,
                   !.lost = eng.openChapters, !.crashedAt = Len(log),
                   !.betweenCalls = (fs.pc = "idle" /\ fs.outcome # "rejected")]
  /\ batch' = EmptyBatch
  /\ UNCHANGED <<engB, log, logB>>

NextFs ==
  \/ /\ Len(log) < MaxFsEvents
     /\ \E event \in FsEvents(eng) : IngestFs(event)
  \/ WriteWorld
  \/ WriteSalts
  \/ \E i \in 1..Len(fs.writes) : AppendSettles(i)
  \/ Flushed
  \/ CrashAndCreate

SpecFs == InitFs /\ [][NextFs]_vars

-----------------------------------------------------------------------------
(* Recording: an engine in fs mode with recordTelemetry.  acceptEvent      *)
(* pushes recordEvent(event, runState) on pendingWrites for every accepted *)
(* event; the task runs up to `await ensureDir` at once and its two        *)
(* continuations (the rotation check up to `await fs.appendFile`, and the  *)
(* update of recording_bytes) run when their request has completed and the *)
(* call is at an await, that is after the loop.  fs.tasks is               *)
(* pendingWrites, fs.files the size and the number of lines of each        *)
(* recording file.                                                         *)

\* Buffer.byteLength of the line written for an event, by what the event
\* carries: the longer its name and attrs, the longer the line
LineBytes(event) ==
  CASE event.kind = "turn" -> 4
    [] event.kind = "tool" -> 7
    [] event.kind = "file" -> 12
    [] OTHER -> 5

\* the recordEvent tasks pushed for the events an iteration accepted, each
\* suspended at `await ensureDir`
PushRecords(tasks, accepted) ==
  tasks \o [i \in 1..Len(accepted) |->
             [run |-> accepted[i].run_id, bytes |-> LineBytes(accepted[i]),
              st |-> "mkdir", index |-> 0]]

\* the events submitted under SpecRec: short lines, a longer one, and a line
\* that alone exceeds maxRecordingBytes
RecEvents(e) ==
  {EventOf("run-1", sh, NextSeq(e, "run-1"), 0) : sh \in {TurnStarted, ToolStart, FileWrite}}
  \cup {EventOf("run-2", TurnStarted, NextSeq(e, "run-2"), 0)}

InitRec ==
  /\ eng = CreateEngine(WorkspaceSalt, RunSalts, CreatedAt)
  /\ fs = [tasks |-> <<>>, pc |-> "idle", outcome |-> "none", files |-> EmptyMap]
  /\ engB = CreateEngine(WorkspaceSalt, RunSalts, CreatedAtB)
  /\ batch = EmptyBatch
  /\ log = <<>>
  /\ logB = <<>>

\* one iteration of the loop of ingestBatch; the first one begins the call
IngestRec(event) ==
  /\ fs.pc \in {"idle", "loop"}
  /\ fs.pc = "loop" => batch.n < MaxBatch
  /\ \E res \in {ingestOne(eng, event, FreshSalt)} :
       /\ eng' = res.eng
       /\ log' = Append(log, Step("ingest", event, res))
       /\ batch' = AddToBatch(IF fs.pc = "idle" THEN EmptyBatch ELSE batch, res)
       /\ fs' = [fs EXCEPT !.pc = "loop", !.outcome = "none",
                           !.tasks = PushRecords(@, res.acceptedEvents)]
  /\ UNCHANGED <<engB, logB>>

\* the loop is over: the call awaits persistWorld, salts.persist and then
\* the pending writes
AwaitWrites ==
  /\ fs.pc = "loop"
  /\ fs' = [fs EXCEPT !.pc = "await"]
  /\ UNCHANGED <<eng, engB, batch, log, logB>>

\* the rotation check of recordEvent on run state `run` for a line of
\* `bytes` bytes
Rotated(run, bytes) ==
  IF run.recording_bytes + bytes > maxRecordingBytes
  THEN [run EXCEPT !.recording_index = @ + 1, !.recording_bytes = 0]
  ELSE run

\* recordEvent resumes after ensureDir: it rotates if the line does not
\* fit, picks the file of the current index and issues appendFile
ResumeAfterMkdir(i) ==
  /\ fs.pc = "await"
  /\ fs.tasks[i].st = "mkdir"
  /\ \E run \in {Rotated(eng.world.runs[fs.tasks[i].run], fs.tasks[i].bytes)} :
       /\ eng' = [eng EXCEPT !.world.runs[fs.tasks[i].run] = run]
       /\ fs' = [fs EXCEPT !.tasks[i].st = "append", !.tasks[i].index = run.recording_index]
  /\ UNCHANGED <<engB, batch, log, logB>>

\* the file after a line of `bytes` bytes was appended to it
Appended(files, path, bytes) ==
  IF Has(files, path)
  THEN [files EXCEPT ![path] = [bytes |-> @.bytes + bytes, lines |-> @.lines + 1]]
  ELSE Put(files, path, [bytes |-> bytes, lines |-> 1])

\* appendFile has written the line and recordEvent resumes: recording_bytes
\* grows by the line
ResumeAfterAppend(i) ==
  /\ fs.pc = "await"
  /\ fs.tasks[i].st = "append"
  /\ eng' = [eng EXCEPT !.world.runs[fs.tasks[i].run].recording_bytes = @ + fs.tasks[i].bytes]
  /\ fs' = [fs EXCEPT
              !.tasks[i].st = "done",
              !.files = Appended(@, <<fs.tasks[i].run, fs.tasks[i].index>>, fs.tasks[i].bytes)]
  /\ UNCHANGED <<engB, batch, log, logB>>

\* flushPendingWrites: every pending write has settled and the call returns
RecordsFlushed ==
  /\ fs.pc = "await"
  /\ \A i \in 1..Len(fs.tasks) : fs.tasks[i].st = "done"
  /\ fs' = [fs EXCEPT !.tasks = <<>>, !.pc = "idle", !.outcome = "resolved"]
  /\ UNCHANGED <<eng, engB, batch, log, logB>>

NextRec ==
  \/ /\ Len(log) < MaxRecEvents
     /\ \E event \in RecEvents(eng) : IngestRec(event)
  \/ AwaitWrites
  \/ \E i \in 1..Len(fs.tasks) : ResumeAfterMkdir(i)
  \/ \E i \in 1..Len(fs.tasks) : ResumeAfterAppend(i)
  \/ RecordsFlushed

SpecRec == InitRec /\ [][NextRec]_vars

-----------------------------------------------------------------------------
(* An engine in fs mode with fixed salts, created over a directory that    *)
(* may hold the world document of an earlier version.  The world is        *)
(* written when a batch ends; between two calls the caller may discard the *)
(* engine and create it again from the directory.                          *)

\* the run state of run-1 as an earlier engine wrote it
LegacyRun(lastSeq, lastUpstreamSeq, internalSeq) ==
  [StoredRun([NewRunState("run-1", 0) EXCEPT !.event_count = 4]) EXCEPT
     !.last_seq = lastSeq, !.last_upstream_seq = lastUpstreamSeq,
     !.internal_seq = internalSeq, !.recording_index = <<>>, !.recording_bytes = <<>>]

LegacyWorld(v, run) ==
  << [v |-> v,
      world |-> [makeWorld("other", 0) EXCEPT !.counters.events = 4,
                                             !.runs = Put(EmptyMap, "run-1", run)]] >>

\* what world.json may hold when the engine is created: nothing, a document
\* of another version, a document without internal_seq, one whose
\* internal_seq is below the offset, one written by this version
WorldFiles ==
  { <<>>,
    LegacyWorld(0, LegacyRun(<<3>>, <<>>, <<>>)),
    LegacyWorld(WORLD_VERSION, LegacyRun(<<3>>, <<>>, <<>>)),
    LegacyWorld(WORLD_VERSION, LegacyRun(<<>>, <<3>>, <<7>>)),
    LegacyWorld(WORLD_VERSION, LegacyRun(<<>>, <<3>>, <<INTERNAL_SEQ_OFFSET + 2>>)) }

FixedSalts == [workspace_salt |-> WorkspaceSalt, runs |-> RunSalts]

\* the events submitted under SpecSeq: low-value lines in two seconds, a
\* turn, and a source whose seqs are as large as the internal ones
Seqs(e) ==
  {EventOf("run-1", sh, NextSeq(e, "run-1"), 0) : sh \in {LogLine, TurnStarted}}
  \cup {EventOf("run-1", LogLine, NextSeq(e, "run-1"), 1000)}
  \cup {EventOf("run-1", ToolStart, INTERNAL_SEQ_OFFSET + 1, 0)}
  \cup {EventOf("run-1", ToolStart, INTERNAL_SEQ_OFFSET + 3, 1000)}
  \cup {EventOf("run-2", LogLine, NextSeq(e, "run-2"), 0)}

\* create: the engine is built from the directory and the world is written
InitSeq ==
  /\ \E file \in WorldFiles :
       /\ eng = LoadEngine(FixedSalts, Disk(file, <<>>, <<>>), CreatedAt)
       /\ fs = [disk |-> Disk(<<StoredWorld(eng.world)>>, <<>>, <<>>), loaded |-> file]
  /\ engB = CreateEngine(WorkspaceSalt, RunSalts, CreatedAtB)
  /\ batch = EmptyBatch
  /\ log = <<>>
  /\ logB = <<>>

\* one iteration of the loop of ingestBatch; after the last one of the batch
\* persistWorld writes the world
IngestStored(event) ==
  /\ \E res \in {ingestOne(eng, event, FreshSalt)} :
       /\ eng' = res.eng
       /\ log' = Append(log, Step("ingest", event, res))
       /\ batch' = AddToBatch(IF batch.n = MaxBatch THEN EmptyBatch ELSE batch, res)
       /\ fs' = IF batch'.n = MaxBatch
                THEN [fs EXCEPT !.disk.world = <<StoredWorld(res.eng.world)>>]
                ELSE fs
  /\ UNCHANGED <<engB, logB>>

\* between two calls the engine is discarded and created again
Recreate ==
  /\ batch.n = MaxBatch
  /\ eng' = LoadEngine(FixedSalts, fs.disk, CreatedAt)
  /\ fs' = [disk |-> [fs.disk EXCEPT !.world = <<StoredWorld(eng'.world)>>],
            loaded |-> fs.disk.world]
  /\ batch' = EmptyBatch
  /\ UNCHANGED <<engB, log, logB>>

NextSeqs ==
  \/ /\ Len(log) < MaxSeqEvents
     /\ \E event \in Seqs(eng) : IngestStored(event)
  \/ Recreate

SpecSeq == InitSeq /\ [][NextSeqs]_vars

-----------------------------------------------------------------------------
(* Reading the history *)

\* the latest call
Last == log[Len(log)]

\* every event the engine has returned in acceptedEvents, in order
RECURSIVE AcceptedUpTo(_)
AcceptedUpTo(n) == IF n = 0 THEN <<>> ELSE AcceptedUpTo(n - 1) \o log[n].acceptedEvents

AllAccepted == AcceptedUpTo(Len(log))

\* every chapter summary the engine has returned in closedChapters, in order
RECURSIVE ClosedUpTo(_)
ClosedUpTo(n) == IF n = 0 THEN <<>> ELSE ClosedUpTo(n - 1) \o log[n].closedChapters

AllClosed == ClosedUpTo(Len(log))

\* the outcome of a submitted external event
IsExternal(st) == st.op = "ingest" /\ ~isInternalEvent(st.event)
Folded(st) == IsExternal(st) /\ st.droppedLowValueEvents = 1
Duplicate(st) == IsExternal(st) /\ st.droppedDuplicateEvents = 1
\* an accepted external event is the last event of acceptedEvents: the
\* synthesized events of its flushes come before it
AcceptedExternally(st) ==
  /\ IsExternal(st)
  /\ st.acceptedEvents # <<>>
  /\ ~st.acceptedEvents[Len(st.acceptedEvents)].internal


-----------------------------------------------------------------------------
(* Sequence discipline *)

\* the upstream seq of an event as the data model defines it
UpstreamOf(event) == IF event.upstream_seq # NoSeq THEN event.upstream_seq ELSE event.seq

\* the upstream seqs of the external events accepted for run r, in order
RECURSIVE ExternalSeqsUpTo(_, _)
ExternalSeqsUpTo(r, n) ==
  IF n = 0 THEN <<>>
  ELSE ExternalSeqsUpTo(r, n - 1) \o
       (IF AcceptedExternally(log[n]) /\ log[n].event.run_id = r
        THEN <<UpstreamOf(log[n].event)>> ELSE <<>>)

ExternalSeqs(r) == ExternalSeqsUpTo(r, Len(log))

StrictlyIncreasing(s) == \A i \in 1..(Len(s) - 1) : s[i] < s[i + 1]

MaxOfSeq(s) == IF s = <<>> THEN -1 ELSE CHOOSE m \in {s[i] : i \in 1..Len(s)} : \A i \in 1..Len(s) : s[i] <= m

\* C2: for each run the accepted external events have strictly increasing
\* upstream seq (upstream_seq if present, else seq), and the run's
\* last_upstream_seq is the maximum upstream seq among them (no run state, or
\* -1, if none was accepted)
C2_SequenceDiscipline ==
  \A r \in Runs :
    /\ StrictlyIncreasing(ExternalSeqs(r))
    /\ IF Has(eng.world.runs, r)
       THEN eng.world.runs[r].last_upstream_seq = MaxOfSeq(ExternalSeqs(r))
       ELSE ExternalSeqs(r) = <<>>

\* a run with three accepted external events, one of them carrying an
\* upstream_seq of its own and one after a gap, and a suppressed duplicate
C2_Witness ==
  /\ Len(ExternalSeqs("run-1")) = 3
  /\ \E i \in 1..Len(log) : Duplicate(log[i])
  /\ \E i \in 1..Len(log) : AcceptedExternally(log[i]) /\ log[i].event.upstream_seq # NoSeq
                            /\ log[i].event.upstream_seq # log[i].event.seq
  /\ \E i \in 1..2 : ExternalSeqs("run-1")[i + 1] > ExternalSeqs("run-1")[i] + 1

-----------------------------------------------------------------------------
(* Determinism *)

\* the world document without the fields seeded from the wall clock
WorldDocument(e) == [e.world EXCEPT !.created_at = 0, !.updated_at = 0]

\* C1: two engines created with the same options and the same fixed salts and
\* fed the same event sequence return the same accepted events (synthesized
\* ones included) and the same closed chapters call by call, and once both
\* have consumed the sequence they hold equal chapter lists and equal world
\* documents apart from created_at / updated_at
C1_Determinism ==
  /\ \A i \in 1..Len(logB) :
       /\ logB[i].acceptedEvents = log[i].acceptedEvents
       /\ logB[i].closedChapters = log[i].closedChapters
       /\ logB[i].droppedLowValueEvents = log[i].droppedLowValueEvents
       /\ logB[i].droppedDuplicateEvents = log[i].droppedDuplicateEvents
  /\ Len(logB) = Len(log) =>
       /\ engB.chapters = eng.chapters
       /\ WorldDocument(engB) = WorldDocument(eng)

\* both engines have consumed a sequence that folded events, synthesized a
\* summary, hashed a path and closed a chapter, and their clocks differ
C1_Witness ==
  /\ Len(log) = MaxReplay /\ Len(logB) = Len(log)
  /\ eng.world.created_at # engB.world.created_at
  /\ eng.chapters # <<>>
  /\ eng.world.counters.backpressure_summaries > 0
  /\ eng.world.files # EmptyMap

-----------------------------------------------------------------------------
(* Outcomes of submitted events *)

\* the steps of the history that submitted an external event of run r
ExternalSteps(r) == {i \in 1..Len(log) : IsExternal(log[i]) /\ log[i].event.run_id = r}

\* the call returned the submitted event itself, as the last accepted event
ReturnedAccepted(st) ==
  /\ st.acceptedEvents # <<>>
  /\ LET a == st.acceptedEvents[Len(st.acceptedEvents)]
     IN /\ ~a.internal
        /\ a.run_id = st.event.run_id /\ a.seq = st.event.seq
        /\ a.kind = st.event.kind /\ a.name = st.event.name /\ a.ts = st.event.ts

\* the call returned no external event
ReturnedNone(st) == \A j \in 1..Len(st.acceptedEvents) : st.acceptedEvents[j].internal

OutcomeAccepted(i) ==
  /\ ReturnedAccepted(log[i])
  /\ log[i].droppedLowValueEvents = 0 /\ log[i].droppedDuplicateEvents = 0

OutcomeFolded(i) ==
  /\ ReturnedNone(log[i])
  /\ log[i].droppedLowValueEvents = 1 /\ log[i].droppedDuplicateEvents = 0

OutcomeDuplicate(i) ==
  /\ ReturnedNone(log[i])
  /\ log[i].droppedLowValueEvents = 0 /\ log[i].droppedDuplicateEvents = 1
  /\ UpstreamOf(log[i].event) <= MaxOfSeq(ExternalSeqsUpTo(log[i].event.run_id, i - 1))

Count(S) == Cardinality(S)

RunCounter(r, field) == IF Has(eng.world.runs, r) THEN eng.world.runs[r][field] ELSE 0

\* the steps of the ingestBatch call in progress (or just returned)
BatchSteps == (Len(log) - batch.n + 1)..Len(log)

\* C3: every external event submitted has exactly one outcome: returned in
\* acceptedEvents, or folded (dropped_low_value_events of the result, the run
\* and the world each +1), or suppressed as a duplicate since its upstream seq
\* is <= last_upstream_seq (duplicate counters of the result, the run and the
\* world each +1); so in every batch accepted external events +
\* droppedLowValueEvents + droppedDuplicateEvents = external events submitted
C3_ExactlyOneOutcome ==
  /\ \A i \in 1..Len(log) : IsExternal(log[i]) =>
       Count({o \in {"accepted", "folded", "duplicate"} :
                \/ o = "accepted" /\ OutcomeAccepted(i)
                \/ o = "folded" /\ OutcomeFolded(i)
                \/ o = "duplicate" /\ OutcomeDuplicate(i)}) = 1
  /\ \A r \in Runs :
       /\ RunCounter(r, "dropped_low_value_events") = Count({i \in ExternalSteps(r) : OutcomeFolded(i)})
       /\ RunCounter(r, "duplicate_events") = Count({i \in ExternalSteps(r) : OutcomeDuplicate(i)})
  /\ eng.world.counters.dropped_low_value_events =
       Count({i \in 1..Len(log) : IsExternal(log[i]) /\ OutcomeFolded(i)})
  /\ eng.world.counters.duplicate_events =
       Count({i \in 1..Len(log) : IsExternal(log[i]) /\ OutcomeDuplicate(i)})
  /\ batch.n <= Len(log)
  /\ Count({j \in 1..Len(batch.acceptedEvents) : ~batch.acceptedEvents[j].internal})
       + batch.droppedLowValueEvents + batch.droppedDuplicateEvents
     = Count({i \in BatchSteps : IsExternal(log[i])})

\* a batch of MaxBatch events has just been consumed, and the history holds
\* an accepted event, a folded one, a duplicate and an internal one
C3_Witness ==
  /\ batch.n = MaxBatch
  /\ batch.droppedLowValueEvents + batch.droppedDuplicateEvents >= 1
  /\ \E i \in 1..Len(log) : IsExternal(log[i]) /\ OutcomeAccepted(i)
  /\ \E i \in 1..Len(log) : IsExternal(log[i]) /\ OutcomeFolded(i)
  /\ \E i \in 1..Len(log) : IsExternal(log[i]) /\ OutcomeDuplicate(i)
  /\ \E i \in 1..Len(log) : ~IsExternal(log[i])

-----------------------------------------------------------------------------
(* The backpressure rule *)

SecondOf(event) == event.ts \div 1000

\* low-value as the data model defines it: kind log, or severity debug, or a
\* name containing progress, delta or heartbeat
LowValueByRule(event) ==
  \/ event.kind = "log"
  \/ event.severity = "debug"
  \/ event.name \in {"log.progress", "metric.heartbeat"}

\* the latest step before i that submitted an external event of run r, or 0
PrevExternal(r, i) ==
  IF \E j \in 1..(i - 1) : j \in ExternalSteps(r)
  THEN CHOOSE j \in 1..(i - 1) :
         j \in ExternalSteps(r) /\ \A k \in (j + 1)..(i - 1) : k \notin ExternalSteps(r)
  ELSE 0

\* the external events of the run counted in the second of the event of step
\* i, itself included: the run's events since its rate counter adopted that
\* second
RECURSIVE CountedInSecond(_)
CountedInSecond(i) ==
  LET p == PrevExternal(log[i].event.run_id, i)
  IN IF p = 0 \/ SecondOf(log[p].event) # SecondOf(log[i].event) THEN 1
     ELSE 1 + CountedInSecond(p)

\* the timestamps of the run's external events up to step i never go back
InOrderUpTo(r, i) ==
  \A j, k \in ExternalSteps(r) : j < k /\ k <= i => log[j].event.ts <= log[k].event.ts

\* C4: an external event is folded iff it is low-value and the number of
\* external events counted for its run in its second, itself included,
\* exceeds the threshold; the count is per run, and for a run whose
\* timestamps are in order it is the number of the run's external events in
\* that second
C4_BackpressureRule ==
  \A i \in 1..Len(log) : IsExternal(log[i]) =>
    /\ log[i].droppedLowValueEvents = 1 <=>
         (LowValueByRule(log[i].event) /\ CountedInSecond(i) > eventsPerSecondThreshold)
    /\ InOrderUpTo(log[i].event.run_id, i) =>
         CountedInSecond(i) =
           Count({j \in ExternalSteps(log[i].event.run_id) :
                    j <= i /\ SecondOf(log[j].event) = SecondOf(log[i].event)})

\* over the threshold in one second of run-1: an event that is low-value by
\* its severity alone and one by its name alone are folded, a tool event is
\* accepted, and the first event of run-2 in that second is accepted
C4_Witness ==
  /\ \E i \in 1..Len(log) :
       /\ log[i].event.run_id = "run-1" /\ log[i].event.severity = "debug"
       /\ log[i].event.kind = "tool" /\ OutcomeFolded(i)
  /\ \E i \in 1..Len(log) :
       /\ log[i].event.run_id = "run-1" /\ log[i].event.name = "metric.heartbeat"
       /\ OutcomeFolded(i)
  /\ \E i \in 1..Len(log) :
       /\ log[i].event.run_id = "run-1" /\ ~LowValueByRule(log[i].event)
       /\ CountedInSecond(i) > eventsPerSecondThreshold /\ OutcomeAccepted(i)
  /\ \E i \in 1..Len(log) :
       /\ log[i].event.run_id = "run-2" /\ LowValueByRule(log[i].event)
       /\ OutcomeAccepted(i)
       /\ Count({j \in 1..i : IsExternal(log[j])
                              /\ SecondOf(log[j].event) = SecondOf(log[i].event)})
            > eventsPerSecondThreshold

-----------------------------------------------------------------------------
(* Backpressure conservation *)

Seconds == {0, 1}
LowValueKinds == {"log", "metric", "tool", "turn"}
LowValueNames ==
  {"log.line", "log.progress", "metric.heartbeat", "tool.shell.start", "turn.completed"}

\* the low-value external events of run r in second sec, by outcome
LowSeen(r, sec) ==
  {i \in ExternalSteps(r) : LowValueByRule(log[i].event) /\ SecondOf(log[i].event) = sec}

IsSummary(event) == event.internal /\ event.name = "metric.backpressure.summary"

\* the summary is that of the bucket (r, sec, kind, name): the redactor gives
\* source_kind and source_name as hashes under the run salt
SummaryOf(event, r, sec, kind, name) ==
  /\ IsSummary(event)
  /\ event.run_id = r
  /\ ObjGet(event.attrs, <<"second">>) = Num(sec)
  /\ ObjGet(event.attrs, <<"source_kind", "_hash">>) = Str(hashPath(<<kind>>, RunSalts[r]))
  /\ ObjGet(event.attrs, <<"source_name", "_hash">>) = Str(hashPath(<<name>>, RunSalts[r]))

\* the sum of the counts of the summaries of the bucket among events
RECURSIVE SummedCount(_, _, _, _, _)
SummedCount(events, r, sec, kind, name) ==
  IF events = <<>> THEN 0
  ELSE (IF SummaryOf(Head(events), r, sec, kind, name)
        THEN ObjGet(Head(events).attrs, <<"count">>).v[1] ELSE 0)
       + SummedCount(Tail(events), r, sec, kind, name)

\* the count of the bucket while it is buffered
BufferedCount(r, sec, kind, name) ==
  IF Has(eng.aggregates, r) /\ Has(eng.aggregates[r], <<sec, kind, name>>)
  THEN eng.aggregates[r][<<sec, kind, name>>].count
  ELSE 0

FoldedInto(r, sec, kind, name) ==
  {i \in ExternalSteps(r) :
     /\ OutcomeFolded(i) /\ SecondOf(log[i].event) = sec
     /\ log[i].event.kind = kind /\ log[i].event.name = name}

\* every folded event is counted once: in the bucket while it is buffered,
\* then in the one summary of its flush; a flush gives one summary a bucket
BucketsConserved ==
  /\ \A r \in Runs, sec \in Seconds, kind \in LowValueKinds, name \in LowValueNames :
       SummedCount(AllAccepted, r, sec, kind, name) + BufferedCount(r, sec, kind, name)
         = Count(FoldedInto(r, sec, kind, name))
  /\ \A i \in 1..Len(log) : \A j, k \in 1..Len(log[i].acceptedEvents) :
       LET a == log[i].acceptedEvents[j]
           b == log[i].acceptedEvents[k]
       IN IsSummary(a) /\ IsSummary(b) /\ j # k =>
            \/ a.run_id # b.run_id
            \/ ObjGet(a.attrs, <<"second">>) # ObjGet(b.attrs, <<"second">>)
            \/ ObjGet(a.attrs, <<"source_kind", "_hash">>) # ObjGet(b.attrs, <<"source_kind", "_hash">>)
            \/ ObjGet(a.attrs, <<"source_name", "_hash">>) # ObjGet(b.attrs, <<"source_name", "_hash">>)
  /\ \A j \in 1..Len(AllAccepted) :
       IsSummary(AllAccepted[j]) =>
         /\ ObjGet(AllAccepted[j].attrs, <<"count">>).v[1] >= 1
         /\ \E sec \in Seconds, kind \in LowValueKinds, name \in LowValueNames :
              SummaryOf(AllAccepted[j], AllAccepted[j].run_id, sec, kind, name)

\* C5 as stated: in every run and second the low-value external events seen
\* are those accepted plus those folded, and every folded event is counted in
\* exactly one summary once its bucket is flushed
C5_Original ==
  /\ \A r \in Runs, sec \in Seconds :
       Count(LowSeen(r, sec)) =
         Count({i \in LowSeen(r, sec) : OutcomeAccepted(i)})
         + Count({i \in LowSeen(r, sec) : OutcomeFolded(i)})
  /\ BucketsConserved

\* C5, amended: in every run and second the low-value external events seen
\* are those accepted plus those folded plus those suppressed as duplicates;
\* every folded event is counted once, in its bucket while buffered and then
\* in the one summary its bucket yields when flushed
C5_Conservation ==
  /\ \A r \in Runs, sec \in Seconds :
       Count(LowSeen(r, sec)) =
         Count({i \in LowSeen(r, sec) : OutcomeAccepted(i)})
         + Count({i \in LowSeen(r, sec) : OutcomeFolded(i)})
         + Count({i \in LowSeen(r, sec) : OutcomeDuplicate(i)})
  /\ BucketsConserved

\* a bucket of two folded events has been flushed into a summary of count 2
\* when the run's second changed, on a low-value event that is a duplicate
C5_Witness ==
  /\ SummedCount(AllAccepted, "run-1", 0, "log", "log.progress") = 2
  /\ Count(FoldedInto("run-1", 0, "log", "log.progress")) = 2
  /\ \E i \in LowSeen("run-1", 1) : OutcomeDuplicate(i)

-----------------------------------------------------------------------------
(* Turn-boundary flush *)

\* the calls that returned a chapter summary of run r
ClosingSteps(r) ==
  {i \in 1..Len(log) : \E k \in 1..Len(log[i].closedChapters) :
                          log[i].closedChapters[k].run_id = r}

\* the latest call before call i that closed a chapter of run r, 0 if none
PrevClose(r, i) ==
  IF \E p \in ClosingSteps(r) : p < i
  THEN CHOOSE p \in ClosingSteps(r) :
         p < i /\ \A q \in ClosingSteps(r) : q < i => q <= p
  ELSE 0

\* the sum of the counts of the summaries of run r among events
RECURSIVE SummaryTotal(_, _)
SummaryTotal(events, r) ==
  IF events = <<>> THEN 0
  ELSE (IF IsSummary(Head(events)) /\ Head(events).run_id = r
        THEN ObjGet(Head(events).attrs, <<"count">>).v[1] ELSE 0)
       + SummaryTotal(Tail(events), r)

\* the events returned by calls from+1 .. to
RECURSIVE AcceptedBetween(_, _)
AcceptedBetween(from, to) ==
  IF to <= from THEN <<>> ELSE AcceptedBetween(from, to - 1) \o log[to].acceptedEvents

\* the buckets still buffered for run r
Buffered(r) == IF Has(eng.aggregates, r) THEN DOMAIN eng.aggregates[r] ELSE {}

\* the chapter summary c returned by call i accounts for the events folded
\* while its chapter was open (its dropped_low_value): summaries of at least
\* that many events were returned since the run's previous chapter closed,
\* they come before the closing event in the result, and the chapter counted
\* them in summaries_emitted
ChapterCovered(i, c) ==
  /\ SummaryTotal(AcceptedBetween(PrevClose(c.run_id, i), i), c.run_id)
       >= c.backpressure.dropped_low_value
  /\ c.backpressure.dropped_low_value > 0 => c.backpressure.summaries_emitted > 0
  /\ \A j \in 1..Len(log[i].acceptedEvents) :
       IsSummary(log[i].acceptedEvents[j]) => j < Len(log[i].acceptedEvents)

\* C6: every low-value event folded while a chapter of a run was open is
\* covered by a summary emitted before the event closing the chapter and
\* counted in the chapter's summaries_emitted, and when a chapter summary is
\* produced no bucket remains buffered for its run
C6_TurnBoundaryFlush ==
  /\ \A i \in 1..Len(log) : \A k \in 1..Len(log[i].closedChapters) :
       ChapterCovered(i, log[i].closedChapters[k])
  /\ Len(log) > 0 =>
       \A k \in 1..Len(Last.closedChapters) : Buffered(Last.closedChapters[k].run_id) = {}

\* the same for the chapters closed by an event that is not flagged internal
C6_ExternalClose ==
  /\ \A i \in 1..Len(log) : \A k \in 1..Len(log[i].closedChapters) :
       IsExternal(log[i]) => ChapterCovered(i, log[i].closedChapters[k])
  /\ Len(log) > 0 /\ IsExternal(Last) =>
       \A k \in 1..Len(Last.closedChapters) : Buffered(Last.closedChapters[k].run_id) = {}

-----------------------------------------------------------------------------
(* Ordering of accepted_events *)

\* the bucket a summary was made from, read back from its attributes
BucketOf(event) ==
  CHOOSE b \in Seconds \X LowValueKinds \X LowValueNames :
    SummaryOf(event, event.run_id, b[1], b[2], b[3])

\* (second, kind, name) of a comes strictly before that of b
KeyAscending(a, b) ==
  \/ a[1] < b[1]
  \/ a[1] = b[1] /\ RankIn(KindOrder, a[2]) < RankIn(KindOrder, b[2])
  \/ a[1] = b[1] /\ a[2] = b[2] /\ RankIn(NameOrder, a[3]) < RankIn(NameOrder, b[3])

\* the external events among events, each named by its run and seq
RECURSIVE ExternalIds(_)
ExternalIds(events) ==
  IF events = <<>> THEN <<>>
  ELSE (IF Head(events).internal THEN <<>>
        ELSE << <<Head(events).run_id, Head(events).seq>> >>)
       \o ExternalIds(Tail(events))

\* the events submitted in calls from .. to that were accepted, in the order
\* of submission
RECURSIVE SubmittedAccepted(_, _)
SubmittedAccepted(from, to) ==
  IF to < from THEN <<>>
  ELSE SubmittedAccepted(from, to - 1)
       \o (IF OutcomeAccepted(to)
           THEN << <<log[to].event.run_id, log[to].event.seq>> >> ELSE <<>>)

\* the accepted events of a batch are in the order they were submitted
SubmissionOrder == ExternalIds(batch.acceptedEvents) = SubmittedAccepted(Len(log) - batch.n + 1, Len(log))

\* the summaries a call returns are those of the run of its event, in
\* ascending (second, kind, name)
SummariesAscending(st) ==
  \A j, k \in 1..Len(st.acceptedEvents) :
    LET a == st.acceptedEvents[j]
        b == st.acceptedEvents[k]
    IN /\ IsSummary(a) => a.run_id = st.event.run_id
       /\ IsSummary(a) /\ IsSummary(b) /\ j < k => KeyAscending(BucketOf(a), BucketOf(b))

\* the summaries a call returns are followed by nothing but the event of the
\* call, which comes last
BeforeTrigger(st) ==
  (\E j \in 1..Len(st.acceptedEvents) : IsSummary(st.acceptedEvents[j])) =>
    LET n == Len(st.acceptedEvents) IN
      /\ ~st.acceptedEvents[n].internal
      /\ st.acceptedEvents[n].seq = st.event.seq
      /\ \A j \in 1..(n - 1) : IsSummary(st.acceptedEvents[j])

\* the summaries a call returns come first in its result; the result holds
\* nothing else, but for the event of the call at the end if it is accepted
BeforeTriggerIfAccepted(st) ==
  LET n == Len(st.acceptedEvents) IN
    \A j \in 1..n :
      \/ IsSummary(st.acceptedEvents[j])
      \/ /\ j = n
         /\ st.droppedLowValueEvents = 0 /\ st.droppedDuplicateEvents = 0
         /\ st.acceptedEvents[n].seq = st.event.seq
         /\ st.acceptedEvents[n].run_id = st.event.run_id

\* C7 as stated: accepted external events are in submission order, and the
\* summaries of a flush come immediately before the event that triggered
\* it, in ascending (second, kind, name)
C7_Original ==
  /\ SubmissionOrder
  /\ \A i \in 1..Len(log) : IsExternal(log[i]) =>
       BeforeTrigger(log[i]) /\ SummariesAscending(log[i])

\* C7, amended: accepted external events are in submission order; the
\* summaries of a flush are in ascending (second, kind, name) and are
\* returned by the call of the event that triggered it, immediately before
\* that event if it is accepted and alone if it is folded or a duplicate
C7_Ordering ==
  /\ SubmissionOrder
  /\ \A i \in 1..Len(log) : IsExternal(log[i]) =>
       BeforeTriggerIfAccepted(log[i]) /\ SummariesAscending(log[i])

\* one flush gave three summaries, ordered by kind and then by name, right
\* before the turn.started that triggered it
C7_Witness ==
  /\ Len(log) > 0
  /\ Len(Last.acceptedEvents) = 4
  /\ IsSummary(Last.acceptedEvents[1]) /\ BucketOf(Last.acceptedEvents[1]) = <<0, "log", "log.line">>
  /\ IsSummary(Last.acceptedEvents[2]) /\ BucketOf(Last.acceptedEvents[2]) = <<0, "log", "log.progress">>
  /\ IsSummary(Last.acceptedEvents[3]) /\ BucketOf(Last.acceptedEvents[3]) = <<0, "metric", "metric.heartbeat">>
  /\ Last.acceptedEvents[4].name = "turn.started"

-----------------------------------------------------------------------------
(* Chapters: opened once, closed once *)

TerminalNames == {"turn.completed", "turn.failed"}
TurnNames == TerminalNames \cup {"turn.started"}

\* the status a chapter gets from the event that closes it
StatusFrom(event) ==
  IF event.name = "turn.started" THEN "interrupted"
  ELSE IF event.name = "turn.completed" THEN "completed"
  ELSE "failed"

\* the events of run r among events
RECURSIVE OfRun(_, _)
OfRun(events, r) ==
  IF events = <<>> THEN <<>>
  ELSE (IF Head(events).run_id = r THEN <<Head(events)>> ELSE <<>>) \o OfRun(Tail(events), r)

\* the events of run r that the reducer got up to call i, in order: what the
\* calls returned in acceptedEvents
Reduced(r, i) == OfRun(AcceptedUpTo(i), r)

\* the calls before call i that submitted a turn.started of run r which
\* started chapter c, with no turn event of the run submitted since
StartedBy(i, c) ==
  {j \in 1..(i - 1) :
     /\ log[j].event.run_id = c.run_id /\ log[j].event.name = "turn.started"
     /\ log[j].event.seq = c.seq_start /\ log[j].event.ts = c.started_ts
     /\ \A k \in (j + 1)..(i - 1) :
          ~(log[k].event.run_id = c.run_id /\ log[k].event.name \in TurnNames)}

\* the reduced events that opened chapter c closed by call i: a turn.started,
\* or an event other than a turn event reduced while the run had no open
\* chapter, with no turn event of the run reduced since
OpenedBy(i, c) ==
  LET red == Reduced(c.run_id, i) IN
  {o \in 1..(Len(red) - 1) :
     /\ red[o].seq = c.seq_start /\ red[o].ts = c.started_ts
     /\ \/ red[o].name = "turn.started"
        \/ /\ red[o].name \notin TurnNames
           /\ o > 1 => red[o - 1].name \in TerminalNames
     /\ \A k \in (o + 1)..(Len(red) - 1) : red[k].name \notin TurnNames}

\* the call returned its own event, as the last accepted event
ReturnedLast(st) ==
  /\ st.acceptedEvents # <<>>
  /\ LET a == st.acceptedEvents[Len(st.acceptedEvents)]
     IN a.run_id = st.event.run_id /\ a.seq = st.event.seq /\ a.name = st.event.name

\* call i closed c with its own event, a turn event that gives c its status,
\* end seq and end time
ClosedBy(i, c) ==
  /\ log[i].event.run_id = c.run_id
  /\ log[i].event.name \in TurnNames
  /\ c.status = StatusFrom(log[i].event)
  /\ c.seq_end = log[i].event.seq /\ c.completed_ts = log[i].event.ts
  /\ ReturnedLast(log[i])

\* no chapter is closed twice: the summaries returned have distinct ids
ClosedOnce ==
  \A a, b \in 1..Len(AllClosed) :
    AllClosed[a].chapter_id = AllClosed[b].chapter_id => a = b

-----------------------------------------------------------------------------
(* Interruption *)

\* call i had its event accepted while the run had an open chapter: an event
\* of the run was reduced before it, and the latest one is not a terminal
\* event
AcceptedWithOpenChapter(i) ==
  LET red == Reduced(log[i].event.run_id, i) IN
    /\ ReturnedLast(log[i])
    /\ Len(red) > 1
    /\ red[Len(red) - 1].name \notin TerminalNames

\* C9: a turn.started accepted for a run with an open chapter closes that
\* chapter as interrupted, with seq_end and completed_ts those of the
\* event, returns it in closedChapters, and leaves open a new chapter with
\* turn_index one higher, started at the event
C9_Interruption ==
  (Len(log) > 0 /\ Last.event.name = "turn.started" /\ AcceptedWithOpenChapter(Len(log))) =>
    LET event == Last.event
        r == event.run_id
    IN /\ Len(Last.closedChapters) = 1
       /\ Last.closedChapters[1].run_id = r
       /\ Last.closedChapters[1].status = "interrupted"
       /\ Last.closedChapters[1].seq_end = event.seq
       /\ Last.closedChapters[1].completed_ts = event.ts
       /\ eng.chapters # <<>> /\ eng.chapters[Len(eng.chapters)] = Last.closedChapters[1]
       /\ Has(eng.openChapters, r)
       /\ eng.openChapters[r].turn_index = Last.closedChapters[1].turn_index + 1
       /\ eng.openChapters[r].started_seq = event.seq
       /\ eng.openChapters[r].started_ts = event.ts

\* turn.started seq 0 at ts 0 followed by turn.started seq 1 at ts 1000: the
\* first chapter is interrupted with seq_end 1 and completed_ts 1000, and
\* chapter 2 is open
C9_Witness ==
  /\ Len(log) = 2
  /\ log[1].event.name = "turn.started" /\ log[1].event.seq = 0 /\ log[1].event.ts = 0
  /\ log[2].event.name = "turn.started" /\ log[2].event.seq = 1 /\ log[2].event.ts = 1000
  /\ log[1].event.run_id = "run-1" /\ log[2].event.run_id = "run-1"
  /\ AcceptedWithOpenChapter(2)
  /\ Len(Last.closedChapters) = 1
  /\ Last.closedChapters[1].status = "interrupted"
  /\ Last.closedChapters[1].seq_end = 1 /\ Last.closedChapters[1].completed_ts = 1000
  /\ eng.openChapters["run-1"].turn_index = 2

-----------------------------------------------------------------------------
(* A terminal event with no open chapter *)

ChapterCount(e, r) == IF Has(e.world.runs, r) THEN e.world.runs[r].chapter_count ELSE 0

\* the step is a call that submits a turn.completed or turn.failed of run r
\* while r has no open chapter
TerminalWithoutChapter(r) ==
  /\ ~Has(eng.openChapters, r)
  /\ Len(log') = Len(log) + 1
  /\ log'[Len(log')].event.run_id = r
  /\ log'[Len(log')].event.name \in TerminalNames

\* the step leaves the chapters of run r as they were, and its event, unless
\* folded or a duplicate, is accepted and counted
ChapteringNoOp(r) ==
  LET st == log'[Len(log')] IN
    /\ st.closedChapters = <<>>
    /\ ~Has(eng'.openChapters, r)
    /\ eng'.chapters = eng.chapters
    /\ eng'.world.counters.chapters = eng.world.counters.chapters
    /\ ChapterCount(eng', r) = ChapterCount(eng, r)
    /\ (st.droppedLowValueEvents = 0 /\ st.droppedDuplicateEvents = 0) =>
         /\ ReturnedLast(st)
         /\ eng'.world.runs[r].event_count >= 1
         /\ eng'.world.counters.events = eng.world.counters.events + Len(st.acceptedEvents)

-----------------------------------------------------------------------------
(* Event counters *)

\* the sum over the runs of the world of their event_count
RunEventCounts(e) ==
  SumOver([r \in DOMAIN e.world.runs |-> e.world.runs[r].event_count], DOMAIN e.world.runs)

\* C11: counters.events of the world is the sum of the event_count of its
\* runs; both count the events returned as accepted, external and
\* synthesized, and neither counts a folded or a duplicate event
C11_EventCounters ==
  /\ eng.world.counters.events = RunEventCounts(eng)
  /\ eng.world.counters.events = Len(AllAccepted)
  /\ \A r \in Runs : RunCounter(r, "event_count") = Len(OfRun(AllAccepted, r))

\* two runs have accepted events, one of them a synthesized summary, after
\* an event was folded
C11_Witness ==
  /\ eng.world.counters.events = 4
  /\ RunCounter("run-1", "event_count") = 3 /\ RunCounter("run-2", "event_count") = 1
  /\ \E j \in 1..Len(AllAccepted) : IsSummary(AllAccepted[j])
  /\ \E i \in 1..Len(log) : OutcomeFolded(i)

-----------------------------------------------------------------------------
(* internal_seq *)

\* the seqs of the synthesized events returned for run r, in order
RECURSIVE SeqsOf(_)
SeqsOf(events) ==
  IF events = <<>> THEN <<>> ELSE <<Head(events).seq>> \o SeqsOf(Tail(events))

SynthesizedSeqs(r) == SeqsOf(SelectSeq(OfRun(AllAccepted, r), IsSummary))

\* internal_seq of run r in the world document that create read, if it is a
\* document of this version that has the run and the number
LoadedInternalSeq(r) ==
  IF fs.loaded # <<>> /\ fs.loaded[1].v = WORLD_VERSION /\ Has(fs.loaded[1].world.runs, r)
  THEN fs.loaded[1].world.runs[r].internal_seq
  ELSE <<>>

InternalSeqBounded ==
  \A r \in DOMAIN eng.world.runs :
    /\ eng.world.runs[r].internal_seq >= INTERNAL_SEQ_OFFSET
    /\ LoadedInternalSeq(r) # <<>> => eng.world.runs[r].internal_seq >= LoadedInternalSeq(r)[1]
    /\ StrictlyIncreasing(SynthesizedSeqs(r))
    /\ \A j \in 1..Len(SynthesizedSeqs(r)) :
         /\ SynthesizedSeqs(r)[j] > INTERNAL_SEQ_OFFSET
         /\ SynthesizedSeqs(r)[j] <= eng.world.runs[r].internal_seq

InternalSeqNeverDecreases ==
  \A r \in DOMAIN eng.world.runs :
    /\ r \in DOMAIN eng'.world.runs
    /\ eng'.world.runs[r].internal_seq >= eng.world.runs[r].internal_seq

\* C12: the internal_seq of a run never decreases, neither in a call nor
\* when the engine is created again from the world it wrote; it is never
\* below INTERNAL_SEQ_OFFSET, also when the world document read at creation
\* has no internal_seq or one below the offset; and the seqs given to the
\* successive synthesized events of the run are strictly increasing
C12_InternalSeq == []InternalSeqBounded /\ [][InternalSeqNeverDecreases]_vars

\* the world read had an internal_seq below the offset for run-1, and two
\* summaries were synthesized for the run with an external event of a large
\* seq accepted in between
C12_Witness ==
  /\ LoadedInternalSeq("run-1") # <<>>
  /\ LoadedInternalSeq("run-1")[1] < INTERNAL_SEQ_OFFSET
  /\ Len(SynthesizedSeqs("run-1")) >= 2
  /\ SynthesizedSeqs("run-1")[2] > SynthesizedSeqs("run-1")[1] + 1

-----------------------------------------------------------------------------
(* Synthesized seqs and external seqs *)

\* the events accepted for run r, in the order they were returned
AcceptedOf(r) == OfRun(AllAccepted, r)

\* the claim as stated: no synthesized event of a run has the seq of an
\* accepted external event of the run, accepted before or after it
C13_Original ==
  \A r \in Runs : \A j, k \in 1..Len(AcceptedOf(r)) :
    IsSummary(AcceptedOf(r)[j]) /\ ~AcceptedOf(r)[k].internal
      => AcceptedOf(r)[j].seq # AcceptedOf(r)[k].seq

\* C13: the seq of a synthesized event of a run is larger than the seq of
\* every external event of the run accepted before it, and differs from the
\* seq of every external event accepted after it whose seq is at most
\* INTERNAL_SEQ_OFFSET; an external event accepted later with a seq above
\* the offset may carry the same seq
C13_NoCollision ==
  \A r \in Runs : \A j, k \in 1..Len(AcceptedOf(r)) :
    IsSummary(AcceptedOf(r)[j]) /\ ~AcceptedOf(r)[k].internal
      => /\ k < j => AcceptedOf(r)[j].seq > AcceptedOf(r)[k].seq
         /\ k > j /\ AcceptedOf(r)[k].seq <= INTERNAL_SEQ_OFFSET
              => AcceptedOf(r)[j].seq # AcceptedOf(r)[k].seq

\* a summary was synthesized after an external event with a seq above the
\* offset had been accepted, and an external event was accepted after a
\* summary
C13_Witness ==
  /\ \E j, k \in 1..Len(AcceptedOf("run-1")) :
       /\ k < j
       /\ IsSummary(AcceptedOf("run-1")[j])
       /\ ~AcceptedOf("run-1")[k].internal
       /\ AcceptedOf("run-1")[k].seq > INTERNAL_SEQ_OFFSET
  /\ \E j, k \in 1..Len(AcceptedOf("run-1")) :
       /\ k > j
       /\ IsSummary(AcceptedOf("run-1")[j])
       /\ ~AcceptedOf("run-1")[k].internal

-----------------------------------------------------------------------------
(* The region of a file *)

\* the file events accepted so far that report file id, in order
Observations(id) ==
  SelectSeq(AllAccepted,
            LAMBDA ev : ev.kind = "file" /\ getPathLikeHashes(ev.attrs).pathId = id)

\* the region the event resolves: its directory hash, or region.unknown
RegionOf(ev) ==
  IF getPathLikeHashes(ev.attrs).regionId # ""
  THEN getPathLikeHashes(ev.attrs).regionId
  ELSE "region.unknown"

\* C14: the region_id of a file is the region resolved by the first event
\* that reported its file id (the directory hash, or region.unknown when the
\* event resolves none); no later event changes it, whatever directory hash
\* it reports for the file
C14_RegionFixed ==
  \A id \in DOMAIN eng.world.files :
    /\ Observations(id) # <<>>
    /\ eng.world.files[id].region_id = RegionOf(Observations(id)[1])
    /\ eng.world.files[id].touch_count = Len(Observations(id))

\* a file first reported under one directory was reported again under
\* another one, and a file first reported without a directory was reported
\* again with one
C14_Witness ==
  /\ \E id \in DOMAIN eng.world.files :
       /\ Len(Observations(id)) >= 2
       /\ RegionOf(Observations(id)[2]) # RegionOf(Observations(id)[1])
       /\ eng.world.files[id].region_id # "region.unknown"
  /\ \E id \in DOMAIN eng.world.files :
       /\ Len(Observations(id)) >= 2
       /\ eng.world.files[id].region_id = "region.unknown"
       /\ RegionOf(Observations(id)[2]) # "region.unknown"

-----------------------------------------------------------------------------
(* chapters.ndjson *)

\* a call has resolved, and no write failed and no process died so far
SettledWithoutError ==
  fs.pc = "idle" /\ fs.outcome = "resolved" /\ fs.errors = 0 /\ fs.crashes = 0

\* how many lines of chapters.ndjson hold summary c
LinesOf(c) == Cardinality({i \in 1..Len(fs.disk.chapters) : fs.disk.chapters[i] = c})

\* every chapter closed so far is in chapters.ndjson exactly once, and the
\* file holds nothing else
EachClosedOnce ==
  /\ Len(fs.disk.chapters) = Len(AllClosed)
  /\ \A i \in 1..Len(AllClosed) : LinesOf(AllClosed[i]) = 1

\* what does hold once the writes have settled without error: every chapter
\* closed so far is in the file exactly once, in some order
ChaptersPersisted == SettledWithoutError => EachClosedOnce

\* C15: once the pending writes of a batch have settled without I/O error,
\* chapters.ndjson holds every chapter summary closed so far exactly once
\* and in the order the chapters were closed
C15_ChaptersInOrder == SettledWithoutError => fs.disk.chapters = AllClosed

-----------------------------------------------------------------------------
(* Persistence failures *)

\* what does hold whatever write fails: the world and the chapter list in
\* memory reflect every event ingested by this engine
InMemoryComplete ==
  fs.crashes = 0 =>
    /\ eng.world.counters.events = Len(AllAccepted)
    /\ eng.world.counters.chapters = Len(AllClosed)
    /\ eng.chapters = AllClosed

\* C16: a persistence failure never propagates: whichever of the writes of
\* a call fails, the call resolves with the batch result (it never
\* rejects), and the world and the chapter list in memory reflect every
\* event of the batch
C16_NeverPropagates == fs.outcome # "rejected" /\ InMemoryComplete

-----------------------------------------------------------------------------
(* Recovery of a failed chapter append *)

\* every chapter closed so far is in chapters.ndjson
AllClosedOnDisk ==
  \A i \in 1..Len(AllClosed) : \E j \in 1..Len(fs.disk.chapters) : fs.disk.chapters[j] = AllClosed[i]

\* C17: after the append of a chapter summary failed, once a later call has
\* resolved with every one of its writes successful, chapters.ndjson holds
\* every chapter that was closed (the later call appended the missing
\* summary again from memory)
C17_Reappended ==
  fs.pc = "idle" /\ fs.outcome = "resolved" /\ fs.callErrors = 0 /\ fs.crashes = 0
    => AllClosedOnDisk

-----------------------------------------------------------------------------
(* Crash and reconstruction *)

\* the chapter ids of the lines of chapters.ndjson
PersistedIds == {fs.disk.chapters[i].chapter_id : i \in 1..Len(fs.disk.chapters)}

\* the engine created after the crash has not yet been given an event
JustCreated == Len(log) = fs.crashedAt

\* the first event given to the engine created after the crash is a
\* turn.started of run r, and it is the last event handled so far
JustRestarted(r) ==
  /\ Len(log) = fs.crashedAt + 1
  /\ Last.event.run_id = r
  /\ isTurnStart(Last.event)

\* the engine was discarded while chapters were open: for each of their
\* runs, the new engine has no open chapter and neither the file nor the
\* chapter list holds the lost chapter; a turn.started of the run that comes
\* next closes nothing and opens a chapter whose id no line of
\* chapters.ndjson carries
Recovered ==
  \A r \in DOMAIN fs.lost :
    /\ JustCreated =>
         /\ ~Has(eng.openChapters, r)
         /\ fs.lost[r].chapter_id \notin PersistedIds
         /\ \A i \in 1..Len(eng.chapters) : eng.chapters[i].chapter_id # fs.lost[r].chapter_id
    /\ JustRestarted(r) =>
         /\ Last.closedChapters = <<>>
         /\ Has(eng.openChapters, r)
         /\ eng.openChapters[r].chapter_id \notin PersistedIds

\* what does hold: the claim for an engine discarded between two calls,
\* none of which rejected, when no read or write has failed
RecoveredBetweenCalls == fs.crashes > 0 /\ fs.betweenCalls /\ fs.errors = 0 => Recovered

\* C19: if an engine is discarded while a chapter is open and a new engine
\* is created from the same storage, the lost chapter is neither in
\* chapters.ndjson nor in the chapter list, the new engine has no open
\* chapter for the run, and the next turn.started of the run closes nothing
\* and opens a chapter whose chapter_id differs from every persisted one
C19_CrashRecovery == fs.crashes > 0 => Recovered

-----------------------------------------------------------------------------
(* Salts *)

\* the workspace salt is the one minted when the directory was first used,
\* and every run used in a call that resolved has the salt it had then
SaltsKept ==
  /\ eng.salts.workspace_salt = createSalt(1)
  /\ \A r \in DOMAIN fs.completed.runs :
       /\ Has(eng.salts.runs, r)
       /\ eng.salts.runs[r] = fs.completed.runs[r]

\* within one engine the salt of a run does not change
RunSaltsFixed ==
  fs'.crashes = fs.crashes =>
    \A r \in DOMAIN eng.salts.runs :
      /\ Has(eng'.salts.runs, r)
      /\ eng'.salts.runs[r] = eng.salts.runs[r]

\* what does hold: the salts are stable as long as no read or write fails
SaltsKeptWithoutError == fs.errors = 0 => SaltsKept

\* C20: within one engine get_run_salt returns the same value on every call
\* for a run; without fixed salts, the workspace salt and the salt of every
\* run used in a completed batch are unchanged in every later engine created
\* over the same directory
C20_SaltStability == []SaltsKept /\ [][RunSaltsFixed]_vars

-----------------------------------------------------------------------------
(* Recording rotation *)

\* the size of the recording file of run r with index n, 0 when it is missing
FileBytes(r, n) == IF Has(fs.files, <<r, n>>) THEN fs.files[<<r, n>>].bytes ELSE 0

\* no recording file is larger than maxRecordingBytes, unless it holds a
\* single line
WithinLimit ==
  \A path \in DOMAIN fs.files :
    fs.files[path].bytes <= maxRecordingBytes \/ fs.files[path].lines = 1

\* the pending writes have settled: recording_bytes of every run is the
\* size of its current recording file
BytesMatchFile ==
  fs.pc = "idle" =>
    \A r \in DOMAIN eng.world.runs :
      eng.world.runs[r].recording_bytes = FileBytes(r, eng.world.runs[r].recording_index)

\* what does hold: once the writes have settled every accepted event has
\* its line in some recording file of its run
RECURSIVE SumBytes(_)
SumBytes(events) ==
  IF events = <<>> THEN 0 ELSE LineBytes(Head(events)) + SumBytes(Tail(events))

AllRecorded ==
  fs.pc = "idle" =>
    \A r \in Runs :
      SumOver([path \in DOMAIN fs.files |-> IF path[1] = r THEN fs.files[path].bytes ELSE 0],
              DOMAIN fs.files)
        = SumBytes(OfRun(AllAccepted, r))

\* C18: under every interleaving of the record writes of a batch, a
\* recording file is rotated before any append that would make it exceed
\* maxRecordingBytes, so that no file grows beyond the limit unless it holds
\* a single line that alone exceeds it, and once the writes have settled the
\* recording_bytes of a run is the size of its current recording file
C18_Rotation == WithinLimit /\ BytesMatchFile

-----------------------------------------------------------------------------
(* The redactor on its own: redactAttrs applied to attrs built entry by    *)
(* entry, under either allowContent setting and with or without a          *)
(* workspace salt, and then applied again to its own output.               *)

MaxAttrs == 2

\* keys of every class of the redactor and of their overlaps
AttrKeys ==
  { <<"path">>, <<"file">>, <<"token">>, <<"apiKey">>, <<"command">>, <<"args">>,
    <<"attempts">>, <<"token", "_hash">>, <<"cookie_body">>, <<"secret_path">>,
    <<"diff_path">>, <<"command", "_hash">>, <<"path", "_hash">>, <<"target">> }

\* a string, a number and an array
AttrValues == { PathStr(<<"src", "a.ts">>), Num(2), Nested }

InitRedact ==
  /\ eng = CreateEngine(WorkspaceSalt, RunSalts, CreatedAt)
  /\ engB = CreateEngine(WorkspaceSalt, RunSalts, CreatedAtB)
  /\ batch = EmptyBatch
  /\ log = <<>>
  /\ logB = <<>>
  /\ \E allowContent \in BOOLEAN, stableSalt \in {"", WorkspaceSalt} :
       fs = [attrs |-> <<>>, allowContent |-> allowContent, stableSalt |-> stableSalt,
             pc |-> "attrs", once |-> <<>>, twice |-> <<>>]

\* the caller builds the attrs object: one more property
SetAttr ==
  /\ fs.pc = "attrs"
  /\ Len(fs.attrs) < MaxAttrs
  /\ \E key \in AttrKeys, value \in AttrValues :
       /\ ~ObjHas(fs.attrs, key)
       /\ fs' = [fs EXCEPT !.attrs = Append(@, [k |-> key, v |-> value])]
  /\ UNCHANGED <<eng, engB, batch, log, logB>>

\* redactAttrs(attrs, salt, {allowContent, stableSalt})
Redact ==
  /\ fs.pc = "attrs"
  /\ fs' = [fs EXCEPT !.pc = "once",
                      !.once = redactAttrs(fs.attrs, RunSalts["run-1"], fs.allowContent,
                                           fs.stableSalt)]
  /\ UNCHANGED <<eng, engB, batch, log, logB>>

\* redactAttrs over its own output, same salts and options
RedactAgain ==
  /\ fs.pc = "once"
  /\ fs' = [fs EXCEPT !.pc = "twice",
                      !.twice = redactAttrs(fs.once, RunSalts["run-1"], fs.allowContent,
                                            fs.stableSalt)]
  /\ UNCHANGED <<eng, engB, batch, log, logB>>

NextRedact == SetAttr \/ Redact \/ RedactAgain

SpecRedact == InitRedact /\ [][NextRedact]_vars

-----------------------------------------------------------------------------
(* C21: whatever the attrs and the options, no key of the redactor's       *)
(* output matches an always-redact pattern; this covers keys that also     *)
(* look already hashed, content-like or path-like, and the derived         *)
(* {key}_hash keys.                                                        *)

NoSecretKey(attrs) == \A i \in 1..Len(attrs) : ~isAlwaysRedactedKey(attrs[i].k)

C21_NeverLeak == NoSecretKey(fs.once) /\ NoSecretKey(fs.twice)

\* content allowed, a secret key that looks hashed went in next to a path,
\* and the derived hash keys came out
C21_Witness ==
  /\ fs.pc = "once"
  /\ fs.allowContent
  /\ ObjHas(fs.attrs, <<"token", "_hash">>)
  /\ ObjHas(fs.once, <<"path", "_stable_dir_hash">>)

-----------------------------------------------------------------------------
(* C22: content keys and raw path values.                                  *)

\* no output key matches a content pattern unless it contains _hash
NoContentKey(out) ==
  \A j \in 1..Len(out) : isContentKey(out[j].k) => isHashedKey(out[j].k)

\* no path-like output key carries the string the input had under that key
NoRawPath(attrs, out) ==
  \A j \in 1..Len(out) :
    (isPathKey(out[j].k) /\ out[j].v.t = "string") => ~SameValue(ObjGet(attrs, out[j].k), out[j].v)

\* every content key and every string under a path-like key is in the output
ContentKept(attrs, out) ==
  \A i \in 1..Len(attrs) :
    (isContentKey(attrs[i].k) \/ (isPathKey(attrs[i].k) /\ attrs[i].v.t = "string"))
      => SameValue(ObjGet(out, attrs[i].k), attrs[i].v)

\* the statement as the claim has it, for every key and value
C22_Original ==
  fs.pc # "attrs" =>
    IF fs.allowContent THEN ContentKept(fs.attrs, fs.once)
    ELSE NoContentKey(fs.once) /\ NoRawPath(fs.attrs, fs.once)

\* a string under a path-like output key is under a key containing _hash
RawPathOnlyHashed(out) ==
  \A j \in 1..Len(out) :
    (isPathKey(out[j].k) /\ out[j].v.t = "string") => isHashedKey(out[j].k)

\* content keys and strings under path-like keys are in the output when the
\* key is not always redacted, does not contain _hash, and the value is a
\* primitive
ContentKeptWhenCopyable(attrs, out) ==
  \A i \in 1..Len(attrs) :
    ( /\ ~isAlwaysRedactedKey(attrs[i].k)
      /\ ~isHashedKey(attrs[i].k)
      /\ asAttrValue(attrs[i].v).t # "undefined"
      /\ isContentKey(attrs[i].k) \/ (isPathKey(attrs[i].k) /\ attrs[i].v.t = "string") )
      => SameValue(ObjGet(out, attrs[i].k), attrs[i].v)

\* C22: with allow_content false the output has no key matching the content
\* set unless the key contains _hash, and a string under a path-like key of
\* the output is under a key containing _hash (a derived hash, or an input
\* key that already contained _hash, copied as it was); with allow_content
\* true a content key, and the raw string of a path-like key, is kept
\* whenever the key is not always redacted, does not contain _hash and the
\* value is a primitive.
C22_ContentAndPaths ==
  fs.pc # "attrs" =>
    IF fs.allowContent THEN ContentKeptWhenCopyable(fs.attrs, fs.once)
    ELSE NoContentKey(fs.once) /\ RawPathOnlyHashed(fs.once)

\* content not allowed: a command and a path went in, only the hashes of the
\* path came out
C22_Witness ==
  /\ fs.pc = "once"
  /\ ~fs.allowContent
  /\ ObjGet(fs.attrs, <<"command">>).t = "number"
  /\ ObjGet(fs.attrs, <<"path">>).t = "string"
  /\ ObjKeys(fs.once) = << <<"path", "_hash">>, <<"path", "_dir_hash">> >>

-----------------------------------------------------------------------------
(* C23: every attribute whose key is path-like, does not match the         *)
(* always-redact set and holds a string gets {key}_hash and {key}_dir_hash *)
(* under the run salt, and {key}_stable_hash and {key}_stable_dir_hash     *)
(* under the workspace salt when one is given, whatever allow_content is.  *)

\* the output holds the four hashes of value under the keys derived from key
HashesEmitted(out, key, value, salt, stableSalt) ==
  /\ SameValue(ObjGet(out, key \o <<"_hash">>), Str(hashPath(value.v, salt)))
  /\ SameValue(ObjGet(out, key \o <<"_dir_hash">>),
               Str(hashPath(dirnamePosix(value.v), salt)))
  /\ stableSalt # "" =>
       /\ SameValue(ObjGet(out, key \o <<"_stable_hash">>),
                    Str(hashPath(value.v, stableSalt)))
       /\ SameValue(ObjGet(out, key \o <<"_stable_dir_hash">>),
                    Str(hashPath(dirnamePosix(value.v), stableSalt)))

IsPathAttr(entry) ==
  isPathKey(entry.k) /\ ~isAlwaysRedactedKey(entry.k) /\ entry.v.t = "string"

C23_PathHashes ==
  fs.pc # "attrs" =>
    \A i \in 1..Len(fs.attrs) :
      IsPathAttr(fs.attrs[i]) =>
        HashesEmitted(fs.once, fs.attrs[i].k, fs.attrs[i].v, RunSalts["run-1"], fs.stableSalt)

\* the hashes are emitted for the path-like keys that reach the path branch
\* (no _hash in the key, and no content pattern in it unless content is
\* allowed) and whose derived keys the attrs do not hold themselves
PathHashesWhenReached ==
  fs.pc # "attrs" =>
    \A i \in 1..Len(fs.attrs) :
      ( /\ IsPathAttr(fs.attrs[i])
        /\ ~isHashedKey(fs.attrs[i].k)
        /\ fs.allowContent \/ ~isContentKey(fs.attrs[i].k)
        /\ \A j \in 1..Len(fs.attrs) : ~isHashedKey(fs.attrs[j].k) )
        => HashesEmitted(fs.once, fs.attrs[i].k, fs.attrs[i].v, RunSalts["run-1"],
                         fs.stableSalt)

\* the key target with a string, content not allowed: nothing comes out
TargetDropped ==
  /\ fs.pc = "once"
  /\ ~fs.allowContent
  /\ fs.attrs = << [k |-> <<"target">>, v |-> PathStr(<<"src", "a.ts">>)] >>
  /\ fs.once = <<>>

-----------------------------------------------------------------------------
(* C24: a synthesized metric.backpressure.summary event, as the engine     *)
(* returns it after the redactor, carries patchlings_internal, second,     *)
(* source_kind, source_name, count and threshold under those keys with     *)
(* the values the engine gave them.                                        *)

SeqToSet(q) == {q[i] : i \in 1..Len(q)}

C24_SummaryAttrsIntact ==
  \A i \in 1..Len(AllAccepted) :
    IsSummary(AllAccepted[i]) =>
      LET attrs == AllAccepted[i].attrs IN
      /\ ObjGet(attrs, <<"patchlings_internal">>) = Bool(TRUE)
      /\ ObjGet(attrs, <<"second">>) = Num(tsToSecond(AllAccepted[i].ts))
      /\ ObjGet(attrs, <<"source_kind">>) \in {Str(k) : k \in SeqToSet(KindOrder)}
      /\ ObjGet(attrs, <<"source_name">>) \in {Str(n) : n \in SeqToSet(NameOrder)}
      /\ ObjGet(attrs, <<"count">>).t = "number"
      /\ ObjGet(attrs, <<"threshold">>) = Num(eventsPerSecondThreshold)

\* what a returned summary does carry: second, count and threshold as given,
\* source_kind and source_name as four hashes each, no patchlings_internal
SummaryAttrsRedacted ==
  \A i \in 1..Len(AllAccepted) :
    IsSummary(AllAccepted[i]) =>
      LET attrs == AllAccepted[i].attrs IN
      /\ ObjKeys(attrs) =
           << <<"second">>,
              <<"source_kind", "_hash">>, <<"source_kind", "_dir_hash">>,
              <<"source_kind", "_stable_hash">>, <<"source_kind", "_stable_dir_hash">>,
              <<"source_name", "_hash">>, <<"source_name", "_dir_hash">>,
              <<"source_name", "_stable_hash">>, <<"source_name", "_stable_dir_hash">>,
              <<"count">>, <<"threshold">> >>
      /\ ObjGet(attrs, <<"second">>) = Num(tsToSecond(AllAccepted[i].ts))
      /\ ObjGet(attrs, <<"count">>).t = "number"
      /\ ObjGet(attrs, <<"threshold">>) = Num(eventsPerSecondThreshold)

-----------------------------------------------------------------------------

\* two attrs objects with the same keys and the same value under each key,
\* whatever the order of the keys; values of different types are different
SameAttrs(a, b) ==
  /\ Len(a) = Len(b)
  /\ \A i \in 1..Len(a) : \E j \in 1..Len(b) :
       a[i].k = b[j].k /\ SameValue(a[i].v, b[j].v)

(* C25: the redactor run over its own output, with the same salts and      *)
(* options, gives that output again; keys that already contain _hash are   *)
(* copied through and not hashed again.                                    *)

C25_Idempotent == fs.pc = "twice" => SameAttrs(fs.twice, fs.once)

\* the second pass returns its input when content is not allowed
IdempotentByDefault ==
  (fs.pc = "twice" /\ ~fs.allowContent) => SameAttrs(fs.twice, fs.once)

\* with content allowed the second pass returns its input unless the attrs
\* held a raw path next to a key containing _hash
IdempotentWithoutHashedInput ==
  (fs.pc = "twice" /\ \A j \in 1..Len(fs.attrs) : ~isHashedKey(fs.attrs[j].k))
    => SameAttrs(fs.twice, fs.once)

-----------------------------------------------------------------------------
(* The end-to-end scenarios of the engine's tests: one turn of run-1 under *)
(* threshold 3, fixed salts, in memory mode.  The turn starts in the       *)
(* second of its events or in the second before, holds tool calls, file    *)
(* writes and debug progress lines in any order, and completes in the      *)
(* same second or in the next one.  seq is the position in the input.      *)

MaxScript == 10

ScenarioThreshold == 3

ToolShellPath == Shape("tool", "tool.shell.start", "none", FALSE,
                       << [k |-> <<"tool_name">>, v |-> Str("shell")],
                          [k |-> <<"path">>, v |-> PathStr(<<"src", "a.ts">>)] >>)

InitScript ==
  /\ eng = [CreateEngine(WorkspaceSalt, RunSalts, CreatedAt)
              EXCEPT !.eventsPerSecondThreshold = ScenarioThreshold]
  /\ engB = [CreateEngine(WorkspaceSalt, RunSalts, CreatedAtB)
               EXCEPT !.eventsPerSecondThreshold = ScenarioThreshold]
  /\ batch = EmptyBatch
  /\ log = <<>>
  /\ logB = <<>>
  /\ fs = MemoryMode

Script ==
  IF log = <<>>
  THEN {EventOf("run-1", TurnStarted, 0, ts) : ts \in {0, 1000}}
  ELSE IF log[Len(log)].event.name = "turn.completed" THEN {}
  ELSE {EventOf("run-1", sh, Len(log), 1000) :
          sh \in {ToolShellPath, FileWrite, LogProgress, TurnCompleted}}
       \cup {EventOf("run-1", TurnCompleted, Len(log), 2000)}

NextScript ==
  /\ Len(log) < MaxScript
  /\ \E event \in Script : IngestEvent(event)

SpecScript == InitScript /\ [][NextScript]_vars

\* the events submitted so far
Input == [i \in 1..Len(log) |-> log[i].event]

-----------------------------------------------------------------------------
(* C26: scenario S1.                                                       *)

S1 ==
  << EventOf("run-1", TurnStarted, 0, 1000),
     EventOf("run-1", ToolShellPath, 1, 1000),
     EventOf("run-1", FileWrite, 2, 1000),
     EventOf("run-1", TurnCompleted, 3, 1000) >>

\* one chapter closed, with the fields of S1 and `files` as files_touched
S1Outcome(files) ==
  /\ Len(AllClosed) = 1
  /\ eng.chapters = AllClosed
  /\ AllClosed[1].turn_index = 1
  /\ AllClosed[1].status = "completed"
  /\ AllClosed[1].files_touched = files
  /\ AllClosed[1].tools_used = << [k |-> "shell", v |-> 1] >>
  /\ AllClosed[1].tests = [pass |-> 0, fail |-> 0]
  /\ AllClosed[1].errors = 0
  /\ AllClosed[1].backpressure.dropped_low_value = 0
  /\ AllClosed[1].backpressure.summaries_emitted = 0

\* S1 as the claim states it: files_touched holds the run-salted hash
C26_Original == Input = S1 => S1Outcome(<< hashPath(<<"src", "a.ts">>, "run-salt") >>)

\* C26: after S1 (fixed salts workspace-salt and run-1 -> run-salt,
\* threshold 3, four events with one timestamp) exactly one chapter is
\* closed, with turn_index 1, tools_used {shell: 1}, tests {0, 0}, errors 0,
\* dropped_low_value 0, summaries_emitted 0, and files_touched holding the
\* one path id hashPath("src/a.ts", "workspace-salt"): the stable hash
C26_S1 == Input = S1 => S1Outcome(<< hashPath(<<"src", "a.ts">>, "workspace-salt") >>)

C26_Witness == Input = S1 /\ Len(AllClosed) = 1

-----------------------------------------------------------------------------
(* C27: scenario S2.                                                       *)

\* turn.started at startTs, eight debug log.progress lines in second 1,
\* turn.completed in second 2
S2(startTs) ==
  << EventOf("run-1", TurnStarted, 0, startTs) >>
  \o [i \in 1..8 |-> EventOf("run-1", LogProgress, i, 1000)]
  \o << EventOf("run-1", TurnCompleted, 9, 2000) >>

\* accepted: turn.started, the first `kept` log lines, one summary counting
\* `folded` events, turn.completed; the chapter counts `folded` dropped
\* events and one summary
S2Outcome(kept, folded) ==
  /\ [i \in 1..Len(AllAccepted) |-> AllAccepted[i].name]
       = <<"turn.started">> \o [i \in 1..kept |-> "log.progress"]
         \o <<"metric.backpressure.summary", "turn.completed">>
  /\ [i \in 1..kept |-> AllAccepted[i + 1].seq] = [i \in 1..kept |-> i]
  /\ IsSummary(AllAccepted[kept + 2])
  /\ ObjGet(AllAccepted[kept + 2].attrs, <<"count">>) = Num(folded)
  /\ Len(AllClosed) = 1
  /\ AllClosed[1].backpressure.dropped_low_value = folded
  /\ AllClosed[1].backpressure.summaries_emitted = 1

\* S2 as the claim states it, the turn starting in the second of the log
\* lines or before it
C27_Original ==
  (Input = S2(1000) \/ Input = S2(0)) =>
    S2Outcome(3, 5) /\ AllClosed[1].backpressure.peak_events_per_sec >= 9

\* C27: under threshold 3 every external event of a second is counted.  When
\* turn.started is in the second of the eight log lines, the accepted events
\* are turn.started, the first two log lines, one summary with count 6 and
\* turn.completed, and the chapter has dropped_low_value 6, summaries_emitted
\* 1 and peak_events_per_sec 9.  When turn.started is in an earlier second,
\* three log lines are accepted, the summary has count 5, the chapter has
\* dropped_low_value 5, summaries_emitted 1 and peak_events_per_sec 8.
C27_S2 ==
  /\ Input = S2(1000) =>
       S2Outcome(2, 6) /\ AllClosed[1].backpressure.peak_events_per_sec = 9
  /\ Input = S2(0) =>
       S2Outcome(3, 5) /\ AllClosed[1].backpressure.peak_events_per_sec = 8

C27_Witness == Input = S2(1000) /\ Len(AllClosed) = 1

\* the other reading of S2 is reached as well
S2EarlierStart == Input = S2(0) /\ Len(AllClosed) = 1

-----------------------------------------------------------------------------
(* A caller that cuts its events into ingestBatch calls of any sizes: eng  *)
(* is fed call by call, engB is handed the same events in a single call,   *)
(* whose loop follows the input of eng and which returns once at the end.  *)
(* Both engines are created alike.                                         *)

MaxSplit == 4

\* persistWorld, salts.persist and flushPendingWrites in memory mode forgetting
\* the per-second counters of the runs
persistWorld_ForgetsSecond(e) == [e EXCEPT !.backpressure = EmptyMap]

\* persistWorld, salts.persist and flushPendingWrites in memory mode: each
\* returns before writing, the engine is what the loop left
persistWorld(e) == e

\* one turn of run-1 with progress lines that are folded and flushed
Split(e) ==
  {EventOf("run-1", sh, NextSeq(e, "run-1"), 0) :
     sh \in {TurnStarted, TurnCompleted, LogProgress, FileWrite}}
  \cup {EventOf("run-1", LogProgress, NextSeq(e, "run-1"), 1000)}

InitSplit ==
  /\ eng = CreateEngine(WorkspaceSalt, RunSalts, CreatedAt)
  /\ engB = CreateEngine(WorkspaceSalt, RunSalts, CreatedAt)
  /\ batch = EmptyBatch
  /\ log = <<>>
  /\ logB = <<>>
  /\ fs = [disk |-> Disk(<<>>, <<>>, <<>>), calls |-> 0, returnedB |-> FALSE]

\* one iteration of the loop of the current call on eng
IngestInCall ==
  /\ ~fs.returnedB
  /\ Len(log) < MaxSplit
  /\ \E event \in Split(eng) :
       \E res \in {ingestOne(eng, event, FreshSalt)} :
         /\ eng' = res.eng
         /\ log' = Append(log, Step("ingest", event, res))
         /\ batch' = AddToBatch(batch, res)
  /\ UNCHANGED <<engB, logB, fs>>

\* the current call on eng ends and returns its accumulators
ReturnCall ==
  /\ ~fs.returnedB
  /\ batch.n > 0
  /\ eng' = persistWorld(eng)
  /\ batch' = EmptyBatch
  /\ fs' = [fs EXCEPT !.calls = @ + 1]
  /\ UNCHANGED <<engB, log, logB>>

\* one iteration of the loop of the single call on engB
IngestInSingleCall == ~fs.returnedB /\ ReplayB

\* the single call on engB ends, having consumed what eng was given
ReturnSingleCall ==
  /\ ~fs.returnedB
  /\ batch.n = 0
  /\ log # <<>>
  /\ Len(logB) = Len(log)
  /\ engB' = persistWorld(engB)
  /\ fs' = [fs EXCEPT !.returnedB = TRUE]
  /\ UNCHANGED <<eng, log, logB, batch>>

NextSplit == IngestInCall \/ ReturnCall \/ IngestInSingleCall \/ ReturnSingleCall

SpecSplit == InitSplit /\ [][NextSplit]_vars

\* what the single call on engB returns
RECURSIVE AcceptedUpToB(_)
AcceptedUpToB(n) == IF n = 0 THEN <<>> ELSE AcceptedUpToB(n - 1) \o logB[n].acceptedEvents

RECURSIVE ClosedUpToB(_)
ClosedUpToB(n) == IF n = 0 THEN <<>> ELSE ClosedUpToB(n - 1) \o logB[n].closedChapters

-----------------------------------------------------------------------------
(* C28: however a sequence of events is cut into consecutive ingestBatch   *)
(* calls, the engine ends with the chapter list and the world document     *)
(* that a single call over the whole sequence gives; the events and        *)
(* chapters returned by the calls, put end to end, are those the single    *)
(* call returns.                                                           *)

-----------------------------------------------------------------------------
(* A caller that, between its ingestBatch calls, asks for the buffered     *)
(* buckets of a run with flushRunAggregates.  The source sends low-value   *)
(* events of three (kind, name) pairs, goes back one second, and has two   *)
(* runs.                                                                   *)

MaxFlush == 5

\* Date.now() at a flushRunAggregates call
FlushedAt == CreatedAt + 1000

Flushable(e) ==
  {EventOf("run-1", sh, NextSeq(e, "run-1"), 1000) :
     sh \in {Heartbeat, LogLine, LogProgress, TurnStarted}}
  \cup {EventOf("run-1", Heartbeat, NextSeq(e, "run-1"), 0)}
  \cup {EventOf("run-2", Heartbeat, NextSeq(e, "run-2"), 0)}

\* flushRunAggregates(runId): the call is not part of a batch
FlushRun(runId) ==
  /\ \E res \in {flushRunAggregates(eng, runId, FlushedAt, FreshSalt)} :
       /\ eng' = res.eng
       /\ log' = Append(log, Step("flush", EventOf(runId, Shape("", "", "", FALSE, <<>>),
                                                  NoSeq, FlushedAt), res))
  /\ batch' = EmptyBatch
  /\ UNCHANGED <<engB, logB, fs>>

NextFlush ==
  /\ Len(log) < MaxFlush
  /\ \/ \E event \in Flushable(eng) : IngestEvent(event)
     \/ \E runId \in Runs : FlushRun(runId)

SpecFlush == Init /\ [][NextFlush]_vars

-----------------------------------------------------------------------------
(* C29: flushRunAggregates(run) returns one synthesized summary per bucket *)
(* buffered for the run, in ascending (second, kind, name), leaves no      *)
(* bucket of the run buffered, reports zero dropped events and closes no   *)
(* chapter: closedChapters is empty and a chapter open for the run stays   *)
(* open.                                                                   *)

\* the keys (second, kind, name) of the buckets buffered for run r
BufferedKeys(e, r) == IF Has(e.aggregates, r) THEN DOMAIN e.aggregates[r] ELSE {}

\* the step taken is a flushRunAggregates call
IsFlushStep == Len(log') = Len(log) + 1 /\ log'[Len(log')].op = "flush"

FlushOutcome ==
  LET st == log'[Len(log')]
      r == st.event.run_id
      out == st.acceptedEvents
  IN /\ \A j \in 1..Len(out) :
          /\ IsSummary(out[j])
          /\ out[j].run_id = r
          /\ BucketOf(out[j]) \in BufferedKeys(eng, r)
          /\ ObjGet(out[j].attrs, <<"count">>) = Num(eng.aggregates[r][BucketOf(out[j])].count)
     /\ \A key \in BufferedKeys(eng, r) : \E j \in 1..Len(out) : BucketOf(out[j]) = key
     /\ \A j, k \in 1..Len(out) : j < k => KeyAscending(BucketOf(out[j]), BucketOf(out[k]))
     /\ BufferedKeys(eng', r) = {}
     /\ st.droppedLowValueEvents = 0
     /\ st.droppedDuplicateEvents = 0
     /\ st.closedChapters = <<>>
     /\ eng'.chapters = eng.chapters
     /\ Has(eng.openChapters, r) =>
          /\ Has(eng'.openChapters, r)
          /\ eng'.openChapters[r].chapter_id = eng.openChapters[r].chapter_id

C29_FlushRunAggregates == [][IsFlushStep => FlushOutcome]_vars

\* a flush has just returned two summaries, of buckets of two seconds, for a
\* run with a chapter open
C29_Witness ==
  /\ log # <<>>
  /\ log[Len(log)].op = "flush"
  /\ Len(log[Len(log)].acceptedEvents) = 2
  /\ BucketOf(log[Len(log)].acceptedEvents[1])[1] # BucketOf(log[Len(log)].acceptedEvents[2])[1]
  /\ Has(eng.openChapters, log[Len(log)].event.run_id)

-----------------------------------------------------------------------------
(* The file-tail adapter (adapters package).  The tailed file is a         *)
(* sequence of pieces of text: "G" is the text of a valid JSON event line  *)
(* (turn.started, seq 0), "T" the text of a truncated JSON object, "N" a   *)
(* newline.  A writer appends pieces, the interval callback polls the      *)
(* file, a consumer iterates the stream with for await, and the caller     *)
(* may stop the adapter.  fs holds the file, the adapter's closure         *)
(* (position, remainder, seqSynth), the AsyncQueue and what the consumer   *)
(* has got.                                                                *)

MaxTail == 4

\* the options of the adapter's test
pollIntervalMs == 10
endOnIdleMs == 50

\* the file of the test: a valid line, a newline, a truncated line
TestFile == <<"G", "N", "T">>

\* text.split(/\r?\n/): the pieces between newlines, the last one included
RECURSIVE SplitLines(_, _, _)
SplitLines(text, cur, acc) ==
  IF text = <<>> THEN Append(acc, cur)
  ELSE IF Head(text) = "N" THEN SplitLines(Tail(text), <<>>, Append(acc, cur))
  ELSE SplitLines(Tail(text), Append(cur, Head(text)), acc)

\* the characters of a line
RECURSIVE TextOf(_)
TextOf(line) == IF line = <<>> THEN "" ELSE Head(line) \o TextOf(Tail(line))

\* AsyncQueue.push: dropped once ended, handed to a waiting next(), else queued
push(a, value) ==
  IF a.ended THEN a
  ELSE IF a.waiting THEN [a EXCEPT !.waiting = FALSE, !.events = Append(@, value)]
  ELSE [a EXCEPT !.values = Append(@, value)]

\* AsyncQueue.close: a waiting next() resolves with done
close(a) ==
  IF a.ended THEN a
  ELSE [a EXCEPT !.ended = TRUE, !.waiting = FALSE, !.done = @ \/ a.waiting]

\* SeqSynthesizer.next taking a provided seq that equals the last one
SeqSynthesizerNext_AcceptsEqual(last, provided) ==
  IF provided # <<>> /\ provided[1] >= last THEN provided[1] ELSE last + 1

\* SeqSynthesizer.next for the adapter's run; provided is <<>> or <<n>>
SeqSynthesizerNext(last, provided) ==
  IF provided # <<>> /\ provided[1] > last THEN provided[1] ELSE last + 1

\* the body of the loop over the complete lines: blank lines are skipped, a
\* line that parses is normalised into its event, any other line becomes
\* log.unparsed_line with the hash of its text
TailLine(a, line) ==
  IF line = <<>> THEN a
  ELSE IF line = <<"G">>
  THEN With(SeqSynthesizerNext(a.lastSeq, <<0>>), LAMBDA seq :
         push([a EXCEPT !.lastSeq = seq],
              [name |-> "turn.started", seq |-> seq, line_hash |-> ""]))
  ELSE With(SeqSynthesizerNext(a.lastSeq, <<>>), LAMBDA seq :
         push([a EXCEPT !.lastSeq = seq],
              [name |-> "log.unparsed_line", seq |-> seq,
               line_hash |-> hashWithSalt(TextOf(line), "run-salt")]))

RECURSIVE TailLines(_, _)
TailLines(a, lines) ==
  IF lines = <<>> THEN a ELSE TailLines(TailLine(a, Head(lines)), Tail(lines))

\* the interval callback on a file that has grown: the slice is read, the
\* last piece is kept as remainder, the pieces before it are the lines
ReadSlice(a, file) ==
  With(SplitLines(a.remainder \o SubSeq(file, a.position + 1, Len(file)), <<>>, <<>>),
       LAMBDA lines :
    TailLines([a EXCEPT !.position = Len(file), !.remainder = lines[Len(lines)]],
              SubSeq(lines, 1, Len(lines) - 1)))

\* fileTailAdapter up to its return: position is 0 with fromStart, else the
\* size of the file
InitTail ==
  /\ eng = CreateEngine(WorkspaceSalt, RunSalts, CreatedAt)
  /\ engB = CreateEngine(WorkspaceSalt, RunSalts, CreatedAtB)
  /\ batch = EmptyBatch
  /\ log = <<>>
  /\ logB = <<>>
  /\ \E file \in {<<>>, TestFile}, fromStart \in BOOLEAN :
       fs = [file |-> file, fromStart |-> fromStart,
             position |-> IF fromStart THEN 0 ELSE Len(file),
             remainder |-> <<>>, lastSeq |-> -1,
             values |-> <<>>, ended |-> FALSE, waiting |-> FALSE,
             events |-> <<>>, done |-> FALSE,
             interval |-> TRUE, idleMs |-> 0]

\* the writer appends to the file
AppendFile ==
  /\ Len(fs.file) < MaxTail
  /\ \E piece \in {"G", "T", "N"} :
       fs' = [fs EXCEPT !.file = Append(@, piece), !.idleMs = 0]
  /\ UNCHANGED <<eng, engB, batch, log, logB>>

\* the interval fires; idleMs is the time the file has not grown, counted up
\* to one interval past endOnIdleMs
Poll ==
  /\ fs.interval
  /\ fs' = IF Len(fs.file) <= fs.position
           THEN [fs EXCEPT !.idleMs = IF @ > endOnIdleMs THEN @ ELSE @ + pollIntervalMs]
           ELSE [ReadSlice(fs, fs.file)
                   EXCEPT !.idleMs = IF @ > endOnIdleMs THEN @ ELSE @ + pollIntervalMs]
  /\ UNCHANGED <<eng, engB, batch, log, logB>>

\* the consumer's for await calls next(): a queued value, done, or it waits
Consume ==
  /\ ~fs.done
  /\ ~fs.waiting
  /\ fs' = IF fs.values # <<>>
           THEN [fs EXCEPT !.values = Tail(@), !.events = Append(@, Head(fs.values))]
           ELSE IF fs.ended THEN [fs EXCEPT !.done = TRUE]
           ELSE [fs EXCEPT !.waiting = TRUE]
  /\ UNCHANGED <<eng, engB, batch, log, logB>>

\* handle.stop(): clearInterval and queue.close()
Stop ==
  /\ fs.interval
  /\ fs' = [close(fs) EXCEPT !.interval = FALSE]
  /\ UNCHANGED <<eng, engB, batch, log, logB>>

NextTail == AppendFile \/ Poll \/ Consume \/ Stop

SpecTail == InitTail /\ [][NextTail]_vars

-----------------------------------------------------------------------------
(* C30: tailing from the start a file that holds a valid JSON line         *)
(* followed by a truncated JSON line, the stream yields the event of the   *)
(* valid line and a log.unparsed_line event for the truncated line, and    *)
(* ends once the file has been idle for endOnIdleMs.                       *)

\* the names of the events pushed so far: consumed or still queued
Pushed == [i \in 1..Len(fs.events \o fs.values) |-> (fs.events \o fs.values)[i].name]

C30_FileTail ==
  (fs.file = TestFile /\ fs.fromStart /\ fs.interval /\ fs.idleMs >= endOnIdleMs) =>
    /\ \E i \in 1..Len(Pushed) : Pushed[i] = "turn.started"
    /\ \E i \in 1..Len(Pushed) : Pushed[i] = "log.unparsed_line"
    /\ fs.ended

\* the event of the valid line is pushed once the file has been polled
ValidLineYielded ==
  (fs.file = TestFile /\ fs.fromStart /\ fs.position = Len(fs.file)) =>
    /\ Pushed = <<"turn.started">>
    /\ fs.remainder = <<"T">>

\* the stream ends only through stop()
EndsOnlyByStop == fs.ended => ~fs.interval

\* a truncated line is reported once a newline has ended it
TruncatedLineReported ==
  (fs.file = <<"G", "N", "T", "N">> /\ fs.fromStart /\ fs.position = Len(fs.file)) =>
    Pushed = <<"turn.started", "log.unparsed_line">>

\* the test's file has been idle past endOnIdleMs and the consumer is still
\* waiting in next() with one event
StillWaiting ==
  /\ fs.file = TestFile /\ fs.fromStart /\ fs.interval
  /\ fs.idleMs > endOnIdleMs
  /\ fs.waiting
  /\ Len(fs.events) = 1

-----------------------------------------------------------------------------
(* The adapters' SeqSynthesizer on its own: one synthesizer, next called   *)
(* for two run ids with whatever the raw record holds under seq.  fs holds *)
(* lastSeqByRun and the calls made so far with what they returned.         *)

MaxSynth == 4

\* a raw seq of h/2: an integer when h is even
Halves(h) == [t |-> "number", halves |-> h]

\* what a raw record can hold under seq: nothing, a string, -1, 1.5, 0, 2
ProvidedValues ==
  { [t |-> "undefined"], [t |-> "string"], Halves(-2), Halves(3), Halves(0), Halves(4) }

\* typeof provided === "number" && Number.isInteger(provided) ? provided : undefined
numericProvided(provided) ==
  IF provided.t = "number" /\ provided.halves % 2 = 0
  THEN << provided.halves \div 2 >>
  ELSE <<>>

\* lastSeqByRun.get(runId) ?? -1
lastSeqOf(lastSeqByRun, runId) ==
  IF runId \in DOMAIN lastSeqByRun THEN lastSeqByRun[runId] ELSE -1

InitSynth ==
  /\ eng = CreateEngine(WorkspaceSalt, RunSalts, CreatedAt)
  /\ engB = CreateEngine(WorkspaceSalt, RunSalts, CreatedAtB)
  /\ batch = EmptyBatch
  /\ log = <<>>
  /\ logB = <<>>
  /\ fs = [lastSeqByRun |-> << >>, calls |-> <<>>]

\* seqSynth.next(runId, provided)
SynthNext ==
  /\ Len(fs.calls) < MaxSynth
  /\ \E runId \in {"run-1", "run-2"}, provided \in ProvidedValues :
       With(SeqSynthesizerNext(lastSeqOf(fs.lastSeqByRun, runId), numericProvided(provided)),
            LAMBDA seq :
              fs' = [lastSeqByRun |-> Put(fs.lastSeqByRun, runId, seq),
                     calls |-> Append(fs.calls,
                                      [runId |-> runId, provided |-> provided,
                                       last |-> lastSeqOf(fs.lastSeqByRun, runId),
                                       seq |-> seq])])
  /\ UNCHANGED <<eng, engB, batch, log, logB>>

NextSynth == SynthNext

SpecSynth == InitSynth /\ [][NextSynth]_vars

-----------------------------------------------------------------------------
(* C31: for each run id the seq values returned by successive              *)
(* SeqSynthesizer.next calls are non-negative and strictly increasing: a   *)
(* provided integer greater than the last returned seq of the run is       *)
(* returned as it is, anything else (missing, not a number, not an         *)
(* integer, not greater) gives last + 1, and the first last is -1.         *)

\* the seq the claim's rule gives for a call
SeqByRule(call) ==
  IF /\ call.provided.t = "number"
     /\ call.provided.halves % 2 = 0
     /\ call.provided.halves \div 2 > call.last
  THEN call.provided.halves \div 2
  ELSE call.last + 1

\* the calls made before call i for the same run
EarlierCalls(i) == { j \in 1..(i - 1) : fs.calls[j].runId = fs.calls[i].runId }

C31_SeqSynthesis ==
  \A i \in 1..Len(fs.calls) :
    /\ fs.calls[i].seq >= 0
    /\ fs.calls[i].seq = SeqByRule(fs.calls[i])
    /\ fs.calls[i].last =
         IF EarlierCalls(i) = {} THEN -1
         ELSE fs.calls[CHOOSE j \in EarlierCalls(i) : \A k \in EarlierCalls(i) : k <= j].seq
    /\ \A j \in EarlierCalls(i) : fs.calls[j].seq < fs.calls[i].seq

\* run-1 got 2 as provided, then 0 came and 3 was returned, then 1.5 came
\* and 4 was returned, while run-2 started at 0
C31_Witness ==
  /\ Len(fs.calls) = 4
  /\ \E i, j, k, l \in 1..4 :
       /\ i < j /\ j < k
       /\ fs.calls[i] = [runId |-> "run-1", provided |-> Halves(4), last |-> -1, seq |-> 2]
       /\ fs.calls[j] = [runId |-> "run-1", provided |-> Halves(0), last |-> 2, seq |-> 3]
       /\ fs.calls[k] = [runId |-> "run-1", provided |-> Halves(3), last |-> 3, seq |-> 4]
       /\ fs.calls[l].runId = "run-2" /\ fs.calls[l].seq = 0

-----------------------------------------------------------------------------
(* Events that carry a secret, a command and a raw path, submitted as an   *)
(* external event, with internal: true, and with attrs.patchlings_internal *)
(* true, among progress lines that the engine folds into summaries.        *)

MaxPolicy == 4

SecretAttrs ==
  << [k |-> <<"tool_name">>, v |-> Str("shell")],
     [k |-> <<"token">>, v |-> Str("s3cret")],
     [k |-> <<"command">>, v |-> Str("deploy")],
     [k |-> <<"path">>, v |-> PathStr(<<"src", "a.ts">>)] >>

SecretTool == Shape("tool", "tool.shell.start", "none", FALSE, SecretAttrs)
SecretToolInternal == Shape("tool", "tool.shell.start", "none", TRUE, SecretAttrs)
SecretToolMarked ==
  Shape("tool", "tool.shell.start", "none", FALSE,
        SecretAttrs \o << [k |-> <<"patchlings_internal">>, v |-> Bool(TRUE)] >>)

Secrets(e) ==
  {EventOf("run-1", sh, NextSeq(e, "run-1"), ts) :
     sh \in {SecretTool, SecretToolInternal, SecretToolMarked, LogProgress, TurnStarted},
     ts \in {0, 1000}}

NextPolicy ==
  /\ Len(log) < MaxPolicy
  /\ \E event \in Secrets(eng) : IngestEvent(event)

SpecPolicy == Init /\ [][NextPolicy]_vars

-----------------------------------------------------------------------------
(* C32: every event returned in accepted_events satisfies the redaction    *)
(* policy of the engine (allow_content false): no attr key matches the     *)
(* always-redact set, no key matches the content set unless it contains    *)
(* _hash, and no string sits under a path-like key that does not contain   *)
(* _hash; this for every submitted event, those that arrive with           *)
(* internal = true or attrs.patchlings_internal = true included.           *)

PolicySafe(event) ==
  /\ NoSecretKey(event.attrs)
  /\ NoContentKey(event.attrs)
  /\ RawPathOnlyHashed(event.attrs)

C32_RedactionPolicy ==
  \A i \in 1..Len(log) : \A j \in 1..Len(log[i].acceptedEvents) :
    PolicySafe(log[i].acceptedEvents[j])

\* the policy holds of everything returned for a submitted event that is
\* not flagged internal: the event itself and the summaries flushed with it
ExternalEventsSafe ==
  \A i \in 1..Len(log) :
    ~isInternalEvent(log[i].event) =>
      \A j \in 1..Len(log[i].acceptedEvents) : PolicySafe(log[i].acceptedEvents[j])

\* an event flagged internal is returned as it was submitted
InternalReturnedRaw ==
  \A i \in 1..Len(log) :
    isInternalEvent(log[i].event) =>
      /\ Len(log[i].acceptedEvents) = 1
      /\ log[i].acceptedEvents[1].attrs = log[i].event.attrs

\* an external event came back redacted and a summary was returned
ExternalRedacted ==
  \E i, k \in 1..Len(log) :
    /\ log[i].event.attrs = SecretAttrs
    /\ ~log[i].event.internal
    /\ Len(log[i].acceptedEvents) = 1
    /\ ObjHas(log[i].acceptedEvents[1].attrs, <<"path", "_hash">>)
    /\ \E j \in 1..Len(log[k].acceptedEvents) : IsSummary(log[k].acceptedEvents[j])

-----------------------------------------------------------------------------
(* C33: an external turn.started, turn.completed or turn.failed event of   *)
(* kind turn that is not a duplicate reaches the reducer, whatever its     *)
(* severity and the rate of its second: the call returns it as accepted    *)
(* and folds nothing, and after a terminal one the run has no open         *)
(* chapter.                                                                *)

\* step i submitted an external turn event whose upstream seq is above
\* every upstream seq accepted for its run before
FreshTurnEvent(i) ==
  /\ IsExternal(log[i])
  /\ log[i].event.kind = "turn"
  /\ log[i].event.name \in TurnNames
  /\ UpstreamOf(log[i].event) > MaxOfSeq(ExternalSeqsUpTo(log[i].event.run_id, i - 1))

C33_TurnEventsReachReducer ==
  /\ \A i \in 1..Len(log) : FreshTurnEvent(i) => OutcomeAccepted(i)
  /\ (Len(log) > 0 /\ FreshTurnEvent(Len(log)) /\ Last.event.name \in TerminalNames)
       => ~Has(eng.openChapters, Last.event.run_id)

\* the same for the turn events whose severity is not debug
TurnEventsReachReducerUnlessDebug ==
  /\ \A i \in 1..Len(log) :
       (FreshTurnEvent(i) /\ log[i].event.severity # "debug") => OutcomeAccepted(i)
  /\ ( /\ Len(log) > 0 /\ FreshTurnEvent(Len(log))
       /\ Last.event.name \in TerminalNames /\ Last.event.severity # "debug" )
       => ~Has(eng.openChapters, Last.event.run_id)

\* a turn.completed of severity debug, second event of its second, is folded
\* and the chapter its turn.started opened stays open
DebugTurnCompletedFolded ==
  /\ Len(log) = 2
  /\ log[1].event.name = "turn.started" /\ OutcomeAccepted(1)
  /\ log[2].event = EventOf("run-1", DebugTurnCompleted, 1, 0)
  /\ OutcomeFolded(2)
  /\ Last.closedChapters = <<>>
  /\ Has(eng.openChapters, "run-1")
  /\ eng.chapters = <<>>

-----------------------------------------------------------------------------
(* C34: chapter accounting from a fresh world.  For each run chapter_count *)
(* is the number of chapter summaries emitted for the run, plus one when   *)
(* the run has an open chapter; counters.chapters is the number of         *)
(* summaries emitted; the open chapter of a run is the one numbered        *)
(* chapter_count; chapter ids are pairwise distinct and turn_index goes up *)
(* by one from each chapter of a run to the next, in close order, from 1.  *)

\* the summaries emitted for run r, in close order
ClosedOf(r) == OfRun(AllClosed, r)

OpenCount(e, r) == IF Has(e.openChapters, r) THEN 1 ELSE 0

C34_ChapterAccounting ==
  /\ \A r \in Runs :
       /\ ChapterCount(eng, r) = Len(ClosedOf(r)) + OpenCount(eng, r)
       /\ Has(eng.openChapters, r) =>
            /\ eng.openChapters[r].turn_index = ChapterCount(eng, r)
            /\ eng.openChapters[r].chapter_id = <<r, ChapterCount(eng, r)>>
       /\ \A k \in 1..Len(ClosedOf(r)) :
            /\ ClosedOf(r)[k].turn_index = k
            /\ ClosedOf(r)[k].chapter_id = <<r, k>>
  /\ eng.world.counters.chapters = Len(AllClosed)
  /\ ClosedOnce

\* run-1 has one summary and a second chapter open, opened by a tool event;
\* run-2 has its first chapter open
C34_Witness ==
  /\ Len(ClosedOf("run-1")) = 1
  /\ Has(eng.openChapters, "run-1")
  /\ eng.openChapters["run-1"].turn_index = 2
  /\ eng.world.runs["run-1"].chapter_count = 2
  /\ Has(eng.openChapters, "run-2")
  /\ eng.world.runs["run-2"].chapter_count = 1
  /\ eng.world.counters.chapters = 1

-----------------------------------------------------------------------------
(* Chapters and the seqs of their first and last event: turns of run-1     *)
(* with tool and progress events, a source that relays upstream seqs       *)
(* (seq of its own, upstream_seq of the origin) and a turn.completed       *)
(* flagged internal.                                                       *)

MaxRange == 4

Range(e) ==
  {EventOf("run-1", sh, NextSeq(e, "run-1"), 0) :
     sh \in {TurnStarted, TurnCompleted, LogProgress, ToolStart}}
  \cup {[EventOf("run-1", TurnCompleted, 0, 0) EXCEPT !.upstream_seq = NextSeq(e, "run-1")]}
  \cup {[EventOf("run-1", ToolStart, NextSeq(e, "run-1") + 5, 0)
           EXCEPT !.upstream_seq = NextSeq(e, "run-1")]}
  \cup {EventOf("run-1", InternalTurnCompleted, 0, 0)}

NextRange ==
  /\ Len(log) < MaxRange
  /\ \E event \in Range(eng) : IngestEvent(event)

SpecRange == Init /\ [][NextRange]_vars

\* the seqs of the external events of run r submitted up to call i
SubmittedSeqs(r, i) == {log[j].event.seq : j \in {k \in ExternalSteps(r) : k <= i}}

\* an event as a source sends it when it does not relay: not flagged
\* internal, no upstream_seq
Plain(event) == ~event.internal /\ event.upstream_seq = NoSeq

SummaryOpensChapter ==
  /\ Len(log) = 3
  /\ log[1].event = EventOf("run-1", TurnCompleted, 0, 0)
  /\ log[2].event = EventOf("run-1", LogProgress, 1, 0) /\ OutcomeFolded(2)
  /\ log[3].event = EventOf("run-1", TurnCompleted, 1, 0)
  /\ Len(Last.closedChapters) = 1
  /\ Last.closedChapters[1].seq_start = INTERNAL_SEQ_OFFSET + 1
  /\ Last.closedChapters[1].seq_end = 1

-----------------------------------------------------------------------------
(* Recording and the world document.  After the loop ingestBatch calls     *)
(* persistWorld, which serializes the world at once (writeJson calls       *)
(* JSON.stringify before its first await) and awaits writeFile; the        *)
(* continuations of the recordEvent tasks run while the call awaits.       *)
(* fs.text is the text handed to writeFile, fs.world what world.json       *)
(* holds.                                                                  *)

MaxPersist == 3

InitPersist ==
  /\ eng = CreateEngine(WorkspaceSalt, RunSalts, CreatedAt)
  /\ fs = [tasks |-> <<>>, pc |-> "idle", outcome |-> "none", files |-> EmptyMap,
           text |-> <<StoredWorld(eng.world)>>, world |-> <<StoredWorld(eng.world)>>,
           written |-> TRUE]
  /\ engB = CreateEngine(WorkspaceSalt, RunSalts, CreatedAtB)
  /\ batch = EmptyBatch
  /\ log = <<>>
  /\ logB = <<>>

\* the loop is over: persistWorld and writeJson run up to `await fs.writeFile`
PersistWorld ==
  /\ fs.pc = "loop"
  /\ fs' = [fs EXCEPT !.pc = "await", !.text = <<StoredWorld(eng.world)>>, !.written = FALSE]
  /\ UNCHANGED <<eng, engB, batch, log, logB>>

\* writeFile has written the text
WorldWritten ==
  /\ fs.pc = "await"
  /\ ~fs.written
  /\ fs' = [fs EXCEPT !.world = fs.text, !.written = TRUE]
  /\ UNCHANGED <<eng, engB, batch, log, logB>>

NextPersist ==
  \/ /\ Len(log) < MaxPersist
     /\ \E event \in RecEvents(eng) : IngestRec(event)
  \/ PersistWorld
  \/ WorldWritten
  \/ \E i \in 1..Len(fs.tasks) : ResumeAfterMkdir(i)
  \/ \E i \in 1..Len(fs.tasks) : ResumeAfterAppend(i)
  \/ fs.written /\ RecordsFlushed

SpecPersist == InitPersist /\ [][NextPersist]_vars

-----------------------------------------------------------------------------
(* C36: in fs mode with recording, when ingestBatch has resolved without   *)
(* I/O error, world.json holds the world document that the call returned,  *)
(* each run's recording_index and recording_bytes included, however the    *)
(* record writes and the world write interleave.                           *)

Resolved == fs.pc = "idle" /\ fs.outcome = "resolved"

C36_WorldOnDisk == Resolved => fs.world = <<StoredWorld(eng.world)>>

\* a run state without its recording fields
WithoutRecording(run) == [run EXCEPT !.recording_index = <<>>, !.recording_bytes = <<>>]

\* world.json holds the returned world but for the recording fields
WorldOnDiskButRecording ==
  Resolved =>
    /\ fs.world[1].v = WORLD_VERSION
    /\ DOMAIN fs.world[1].world.runs = DOMAIN eng.world.runs
    /\ [fs.world[1].world EXCEPT !.runs = << >>] = [eng.world EXCEPT !.runs = << >>]
    /\ \A r \in DOMAIN eng.world.runs :
         WithoutRecording(fs.world[1].world.runs[r]) = WithoutRecording(StoredRun(eng.world.runs[r]))

\* the recording fields on disk are those the runs had when the loop of the
\* last call ended: the lines recorded by that call are not counted
RecordingAsBeforeCall ==
  Resolved =>
    \A r \in DOMAIN eng.world.runs :
      LET lines == {j \in 1..Len(batch.acceptedEvents) : batch.acceptedEvents[j].run_id = r}
      IN (lines = {}) <=>
           /\ fs.world[1].world.runs[r].recording_bytes = <<eng.world.runs[r].recording_bytes>>
           /\ fs.world[1].world.runs[r].recording_index = <<eng.world.runs[r].recording_index>>

\* one call with one event has resolved: the run has 4 recorded bytes in
\* memory and 0 in world.json
StaleRecordingBytes ==
  /\ Resolved
  /\ Len(log) = 1
  /\ eng.world.runs["run-1"].recording_bytes = 4
  /\ fs.world[1].world.runs["run-1"].recording_bytes = <<0>>
  /\ fs.files[<<"run-1", 0>>].bytes = 4

-----------------------------------------------------------------------------
(* Two runs in one engine: the same turn and progress events for both,     *)
(* in any interleaving.                                                    *)

MaxRuns == 4

TwoRuns(e) ==
  {EventOf(r, sh, NextSeq(e, r), 0) :
     r \in Runs, sh \in {TurnStarted, TurnCompleted, LogProgress}}
  \cup {EventOf(r, LogProgress, NextSeq(e, r), 1000) : r \in Runs}

NextRuns ==
  /\ Len(log) < MaxRuns
  /\ \E event \in TwoRuns(eng) : IngestEvent(event)

SpecRuns == Init /\ [][NextRuns]_vars

\* what the engine holds for run r: its run state, its open chapter, its
\* per-second rate counter and its buffered buckets
RunView(e, r) ==
  [run |-> IF Has(e.world.runs, r) THEN <<e.world.runs[r]>> ELSE <<>>,
   chapter |-> IF Has(e.openChapters, r) THEN <<e.openChapters[r]>> ELSE <<>>,
   rate |-> IF Has(e.backpressure, r) THEN <<e.backpressure[r]>> ELSE <<>>,
   buckets |-> IF Has(e.aggregates, r) THEN <<e.aggregates[r]>> ELSE <<>>]

\* the step ingests an event of a run other than r
IngestsOtherRun(r) ==
  /\ Len(log') = Len(log) + 1
  /\ log'[Len(log')].op = "ingest"
  /\ log'[Len(log')].event.run_id # r

\* C37: ingesting an event of run A leaves unchanged run B's run state
\* (counters, last_upstream_seq, internal_seq, last_ts), run B's open
\* chapter, run B's per-second rate counter and run B's buffered buckets,
\* however the events of the two runs interleave.
C37_RunIsolation ==
  [][\A r \in Runs : IngestsOtherRun(r) => RunView(eng', r) = RunView(eng, r)]_vars

\* run-2 has an open chapter, a rate counter and a buffered bucket, and an
\* event of run-1 that closed a chapter of run-1 was the last one ingested
C37_Witness ==
  /\ Len(log) = 4
  /\ Last.event.run_id = "run-1"
  /\ Len(Last.closedChapters) = 1
  /\ Has(eng.openChapters, "run-2")
  /\ Has(eng.backpressure, "run-2")
  /\ Buffered("run-2") # {}

-----------------------------------------------------------------------------
(* Duplicates: what a suppressed duplicate leaves alone                     *)

MaxDup == 4

\* the events submitted under SpecDup: a source that replays a line within
\* the second, a second later and at a turn boundary, and a relay whose
\* upstream_seq is below every seq
Dups(e) ==
  {EventOf("run-1", sh, NextSeq(e, "run-1"), 0) : sh \in {ToolStart, LogProgress, TurnStarted}}
  \cup {EventOf("run-1", ToolStart, SameSeq(e, "run-1"), ts) : ts \in {0, 1000}}
  \cup {EventOf("run-1", TurnStarted, SameSeq(e, "run-1"), 0)}
  \cup {[EventOf("run-2", ToolStart, 0, 0) EXCEPT !.upstream_seq = -2]}

NextDup ==
  /\ Len(log) < MaxDup
  /\ \E event \in Dups(eng) : IngestEvent(event)

SpecDup == Init /\ [][NextDup]_vars

\* the step ingests an external event that is suppressed as a duplicate
SuppressesDuplicate ==
  /\ Len(log') = Len(log) + 1
  /\ Duplicate(log'[Len(log')])

\* the run's event_count, or 0 for a run the engine does not hold
EventCountOf(e, r) == IF Has(e.world.runs, r) THEN e.world.runs[r].event_count ELSE 0

\* the open chapter of run r without its peak
ChapterButPeak(e, r) ==
  IF Has(e.openChapters, r)
  THEN <<[e.openChapters[r] EXCEPT !.peak_events_per_sec = 0]>>
  ELSE <<>>

\* the world with the fields a duplicate may write set to fixed values: the
\* duplicate counters, the run's last_ts and the run's peak
WorldButDuplicate(e, r) ==
  [e.world EXCEPT !.counters.duplicate_events = 0,
                  !.runs = IF Has(e.world.runs, r)
                           THEN [@ EXCEPT ![r].duplicate_events = 0, ![r].last_ts = 0,
                                          ![r].peak_events_per_sec = 0]
                           ELSE Put(@, r, [NewRunState(r, 0) EXCEPT !.duplicate_events = 0])]

\* C38 as stated: a suppressed duplicate changes nothing but the duplicate
\* counters; the run's event_count, last_ts and peak_events_per_sec, the
\* open chapter with its peak, world.updated_at, the accepted-event output
\* and the buffered buckets are unchanged.
C38_Original ==
  [][SuppressesDuplicate =>
       LET r == log'[Len(log')].event.run_id
       IN /\ RunView(eng', r).chapter = RunView(eng, r).chapter
          /\ RunView(eng', r).buckets = RunView(eng, r).buckets
          /\ eng'.world.updated_at = eng.world.updated_at
          /\ log'[Len(log')].acceptedEvents = <<>>
          /\ Has(eng.world.runs, r)
          /\ eng'.world.runs[r].event_count = eng.world.runs[r].event_count
          /\ eng'.world.runs[r].last_ts = eng.world.runs[r].last_ts
          /\ eng'.world.runs[r].peak_events_per_sec = eng.world.runs[r].peak_events_per_sec]_vars

\* C38: a suppressed duplicate that flushes no bucket (it returns no
\* accepted event) changes in the world only the duplicate counters, the
\* run's last_ts, which becomes the ts of the duplicate, and the run's
\* peak_events_per_sec, and in the open chapter only its peak; a run entry
\* is created when the engine holds none.  The run's event_count, the rest
\* of the open chapter, world.updated_at and the buffered buckets are
\* unchanged, and the peaks never fall.
C38_DuplicateFrame ==
  [][(SuppressesDuplicate /\ log'[Len(log')].acceptedEvents = <<>>) =>
       LET r == log'[Len(log')].event.run_id
       IN /\ WorldButDuplicate(eng', r) = WorldButDuplicate(eng, r)
          /\ eng'.world.runs[r].last_ts = log'[Len(log')].event.ts
          /\ eng'.world.runs[r].duplicate_events
               = (IF Has(eng.world.runs, r) THEN eng.world.runs[r].duplicate_events ELSE 0) + 1
          /\ eng'.world.counters.duplicate_events = eng.world.counters.duplicate_events + 1
          /\ EventCountOf(eng', r) = EventCountOf(eng, r)
          /\ ChapterButPeak(eng', r) = ChapterButPeak(eng, r)
          /\ DOMAIN eng'.openChapters = DOMAIN eng.openChapters
          /\ \A c \in DOMAIN eng.openChapters :
               eng'.openChapters[c].peak_events_per_sec >= eng.openChapters[c].peak_events_per_sec
          /\ Has(eng.world.runs, r) =>
               eng'.world.runs[r].peak_events_per_sec >= eng.world.runs[r].peak_events_per_sec
          /\ eng'.aggregates = eng.aggregates
          /\ log'[Len(log')].closedChapters = <<>>]_vars

\* a replayed line, a second after the event it repeats, was suppressed as
\* a duplicate with nothing to flush: last_ts is its ts and the peak of the
\* run and of the open chapter stand above the one event accepted
C38_Witness ==
  /\ Len(log) >= 3
  /\ Duplicate(Last) /\ Last.acceptedEvents = <<>>
  /\ Last.event.ts = 1000
  /\ eng.world.runs["run-1"].last_ts = 1000
  /\ eng.world.runs["run-1"].event_count = 1
  /\ eng.world.runs["run-1"].peak_events_per_sec = 2
  /\ Has(eng.openChapters, "run-1")
  /\ eng.openChapters["run-1"].peak_events_per_sec = 2

\* a replayed turn.started flushed a buffered bucket before it was
\* suppressed: the step returned the summary and counted it
DuplicateFlushes ==
  /\ Len(log) >= 1
  /\ Duplicate(Last)
  /\ Last.acceptedEvents # <<>>

\* a duplicate was the first event of its run: the run entry is there
DuplicateCreatesRun ==
  /\ Len(log) >= 1
  /\ Duplicate(Last)
  /\ Last.event.run_id = "run-2"
  /\ eng.world.runs["run-2"].event_count = 0

-----------------------------------------------------------------------------
(* flushRunAggregates for a run with nothing buffered                       *)

\* the step is a flushRunAggregates call for a run with no buffered bucket
FlushesNothing ==
  /\ IsFlushStep
  /\ BufferedKeys(eng, log'[Len(log')].event.run_id) = {}

\* C39: flushRunAggregates for a run with no buffered bucket, a run id the
\* engine has never seen included, returns empty acceptedEvents and
\* closedChapters and leaves the world unchanged: no run entry is created
\* and no timestamp taken from the wall clock is stored.
C39_EmptyFlush ==
  [][FlushesNothing =>
       /\ log'[Len(log')].acceptedEvents = <<>>
       /\ log'[Len(log')].closedChapters = <<>>
       /\ eng'.world = eng.world]_vars

\* the part of C39 that holds: nothing is returned, and the world of a run
\* the engine already holds is left as it was
EmptyFlushOfKnownRun ==
  [][FlushesNothing =>
       /\ log'[Len(log')].acceptedEvents = <<>>
       /\ log'[Len(log')].closedChapters = <<>>
       /\ Has(eng.world.runs, log'[Len(log')].event.run_id) => eng'.world = eng.world
       /\ eng'.openChapters = eng.openChapters
       /\ eng'.aggregates = eng.aggregates]_vars

\* what the call does for a run id the engine has never seen: the world
\* gains a run entry whose last_ts is the wall clock of the call
EmptyFlushOfUnseenRun ==
  [][(FlushesNothing /\ ~Has(eng.world.runs, log'[Len(log')].event.run_id)) =>
       eng'.world = [eng.world EXCEPT !.runs =
                       Put(@, log'[Len(log')].event.run_id,
                           NewRunState(log'[Len(log')].event.run_id, FlushedAt))]]_vars

\* the first call on a new engine was flushRunAggregates("run-2"): run-2 is
\* in the world with last_ts at the wall clock, and no event was ingested
FlushCreatedRun ==
  /\ Len(log) = 1
  /\ Last.op = "flush" /\ Last.event.run_id = "run-2"
  /\ Has(eng.world.runs, "run-2")
  /\ eng.world.runs["run-2"].last_ts = FlushedAt
  /\ eng.world.runs["run-2"].event_count = 0

-----------------------------------------------------------------------------
(* The file-tail adapter with the awaits of its interval callback.  The    *)
(* callback awaits statFile, then readFileSlice, and setInterval fires it  *)
(* again whether or not the one before has returned.  fs holds the file,   *)
(* the closure (position, remainder, seqSynth), the queue, the callbacks   *)
(* in flight (polls), the slices processed so far (reads), the number of   *)
(* callbacks fired and whether two of them were ever in flight together.   *)

MaxOverlap == 3
MaxFired == 3

\* fileTailAdapter({fromStart: true}) on a file that does not exist yet
InitOverlap ==
  /\ eng = CreateEngine(WorkspaceSalt, RunSalts, CreatedAt)
  /\ engB = CreateEngine(WorkspaceSalt, RunSalts, CreatedAtB)
  /\ batch = EmptyBatch
  /\ log = <<>>
  /\ logB = <<>>
  /\ fs = [file |-> <<>>, position |-> 0, remainder |-> <<>>, lastSeq |-> -1,
           values |-> <<>>, ended |-> FALSE, waiting |-> FALSE,
           events |-> <<>>, done |-> FALSE,
           polls |-> <<>>, reads |-> <<>>, fired |-> 0, overlapped |-> FALSE]

\* the writer appends to the file
WriteFile ==
  /\ Len(fs.file) < MaxOverlap
  /\ \E piece \in {"G", "T", "N"} : fs' = [fs EXCEPT !.file = Append(@, piece)]
  /\ UNCHANGED <<eng, engB, batch, log, logB>>

\* the interval fires: a callback starts and awaits statFile
Fire ==
  /\ fs.fired < MaxFired
  /\ fs' = [fs EXCEPT !.fired = @ + 1,
                      !.polls = Append(@, [pc |-> "stat", start |-> 0, size |-> 0]),
                      !.overlapped = @ \/ fs.polls # <<>>]
  /\ UNCHANGED <<eng, engB, batch, log, logB>>

\* the sequence s without its i-th element
Without(s, i) == SubSeq(s, 1, i - 1) \o SubSeq(s, i + 1, Len(s))

\* statFile resolves for callback i: it returns when the file has not grown
\* past position, else it calls readFileSlice(path, position, stats.size)
StatResolves(i) ==
  /\ fs.polls[i].pc = "stat"
  /\ fs' = IF Len(fs.file) <= fs.position
           THEN [fs EXCEPT !.polls = Without(@, i)]
           ELSE [fs EXCEPT !.polls[i] =
                   [pc |-> "read", start |-> fs.position, size |-> Len(fs.file)]]
  /\ UNCHANGED <<eng, engB, batch, log, logB>>

\* the rest of the callback once its slice has been read: position, the
\* split of remainder + slice, the new remainder and the loop over the lines
ProcessSlice(a, start, size) ==
  With(SplitLines(a.remainder \o SubSeq(a.file, start + 1, size), <<>>, <<>>),
       LAMBDA lines :
    TailLines([a EXCEPT !.position = size, !.remainder = lines[Len(lines)]],
              SubSeq(lines, 1, Len(lines) - 1)))

\* readFileSlice resolves for callback i and the callback runs to its end
ReadResolves(i) ==
  /\ fs.polls[i].pc = "read"
  /\ fs' = [ProcessSlice(fs, fs.polls[i].start, fs.polls[i].size)
              EXCEPT !.polls = Without(@, i),
                     !.reads = Append(@, [start |-> fs.polls[i].start,
                                          end |-> fs.polls[i].size])]
  /\ UNCHANGED <<eng, engB, batch, log, logB>>

NextOverlap ==
  \/ WriteFile
  \/ Fire
  \/ \E i \in 1..Len(fs.polls) : StatResolves(i)
  \/ \E i \in 1..Len(fs.polls) : ReadResolves(i)

SpecOverlap == InitOverlap /\ [][NextOverlap]_vars

\* an emitted event without its seq
LineEvent(ev) == [name |-> ev.name, line_hash |-> ev.line_hash]

\* the events emitted so far, in order
Emitted == [i \in 1..Len(fs.values) |-> LineEvent(fs.values[i])]

\* the events of the complete lines of the file, in file order: what one
\* read of the whole file yields
EventsOfFile ==
  With(ProcessSlice([fs EXCEPT !.position = 0, !.remainder = <<>>, !.lastSeq = -1,
                               !.values = <<>>], 0, Len(fs.file)),
       LAMBDA a : [i \in 1..Len(a.values) |-> LineEvent(a.values[i])])

IsPrefix(s, t) == Len(s) <= Len(t) /\ s = SubSeq(t, 1, Len(s))

\* every slice processed starts where the one before ended: no byte is read
\* twice and none is skipped
ReadsContiguous ==
  \A i \in 1..Len(fs.reads) :
    fs.reads[i].start = (IF i = 1 THEN 0 ELSE fs.reads[i - 1].end)

\* C40: with polls that overlap (a callback still awaits its read when the
\* interval fires again), each complete line appended to the file is
\* emitted as exactly one event, in file order, and the read position
\* never re-reads or skips bytes.
C40_OverlappingPolls ==
  /\ IsPrefix(Emitted, EventsOfFile)
  /\ ReadsContiguous
  /\ (fs.polls = <<>> /\ fs.position = Len(fs.file)) => Emitted = EventsOfFile

\* the same of the runs in which no two callbacks were in flight together
SerialPolls == ~fs.overlapped => C40_OverlappingPolls

\* two callbacks read the same line: the file holds one complete line and
\* two events were emitted for it
LineEmittedTwice ==
  /\ fs.file = <<"G", "N">>
  /\ fs.polls = <<>>
  /\ Len(fs.values) = 2
  /\ fs.reads = <<[start |-> 0, end |-> 2], [start |-> 0, end |-> 2]>>

\* the later callback finished first: position went back from 3 to 2
PositionWentBack ==
  /\ Len(fs.file) = 3
  /\ fs.polls = <<>>
  /\ fs.position = 2
  /\ fs.reads = <<[start |-> 0, end |-> 3], [start |-> 0, end |-> 2]>>

====
